---------------------------- MODULE Spec2Model ----------------------------
(***************************************************************************)
(* A model of the streaming JSON parser of src/__init__.py, of its         *)
(* yield_paths(), and of the UTF-8 decoder of src/utf8_decoder.py.         *)
(*                                                                         *)
(* A byte (a bytes object of length one) is the integer 0..255 it holds;   *)
(* the empty bytes object b'' that stream.read(1) returns at end of input  *)
(* is EOF, and Python's None in stuffed_char is None.  A matcher is a      *)
(* record: a literal byte or a named predicate.  An element of the expect  *)
(* stack is a sequence of matchers <<m>> (a single, mandatory matcher) or  *)
(* <<optional, mandatory>> (the 2-tuple of the source).                    *)
(*                                                                         *)
(* The parser object and the frames of its generators are packed in one    *)
(* record p; one step of the model runs the code from one call of          *)
(* next_char() up to the next one, or up to the next yield.                *)
(***************************************************************************)
EXTENDS Integers, Sequences, FiniteSets, TLC

VARIABLES
    data,          \* the bytes stream.read(1) has returned so far
    rest,          \* the bytes still in the stream, when the document is fixed
    open,          \* TRUE while the rest of the stream is not determined yet
    char_num,      \* self.char_num
    stuffed_char,  \* self.stuffed_char
    expect_stack,  \* self.expect_stack
    container_value_context_stack,  \* self.container_value_context_stack
    pc,            \* where parse() and the consumer are
    matcher,       \* next_event: the element popped from the expect stack
    kw,            \* next_event: bytes of null/true/false still to expect
    kw_name,       \* next_event: which of NULL / TRUE / FALSE is being read
    matched,       \* next_event: the matcher expect() returned
    gen,           \* position of the value generator of the current event
    expect,        \* parse(): what next_event() returned to expect next
    events,        \* the (event, payload) pairs parse() has yielded
    nread,         \* payload bytes of the current event the consumer has read
    token_gaps,    \* offsets of the bytes next_event() itself asked for
    err,           \* the exception that ended the parse, if any
    \* yield_paths(paths)
    paths,         \* the argument paths
    unyielded_path_idxs,  \* unyielded_path_idxs
    path,          \* path, the current path stack
    yielded,       \* the (path, value) pairs yield_paths has yielded
    loading,       \* the frame of the load() yield_paths has called
    paths_pc,      \* where yield_paths is: "loop", "load", "yield", ...
    paths_raised,  \* the exception that left yield_paths, if any
    \* UTF8Decoder of src/utf8_decoder.py
    input,         \* the bytes the decoder's stream held at construction
    stream,        \* self.stream: the bytes it still holds
    byte_num,      \* self.byte_num
    first_read,    \* self.first_read
    errors,        \* self.errors
    num_pending_replacement,  \* self.num_pending_replacement
    disallow_nonchars,  \* self.disallow_nonchars
    output,        \* the characters next() has returned to the consumer
    rejected,      \* the calls of error(): bytes consumed, counted, and why
    depth,         \* calls of __next__ that error() has made and not left
    raised         \* the exception that ended the iteration, if any

\* the parser and its stream
parser_vars ==
    << data, rest, open, char_num, stuffed_char, expect_stack,
       container_value_context_stack, pc, matcher, kw, kw_name, matched,
       gen, expect, events, nread, token_gaps, err >>

\* the frame of yield_paths()
paths_vars ==
    << paths, unyielded_path_idxs, path, yielded, loading, paths_pc,
       paths_raised >>

\* the decoder and its stream
decoder_vars ==
    << input, stream, byte_num, first_read, errors, num_pending_replacement,
       disallow_nonchars, output, rejected, depth, raised >>

vars == << parser_vars, paths_vars, decoder_vars >>

-----------------------------------------------------------------------------
(* Bounds of the model *)

\* longest document read from a stream whose content is left open
MaxLen == 4

-----------------------------------------------------------------------------
(* Bytes and constants *)

EOF == -1
None == -2

PERIOD == 46
NEGATIVE_SIGN == 45
OBJECT_OPEN == 123
ARRAY_OPEN == 91
STRING_START == 34
STRING_TERMINATOR == 34
NULL_START == 110
TRUE_START == 116
FALSE_START == 102
OBJECT_CLOSE == 125
ARRAY_CLOSE == 93
KV_SEP == 58
ITEM_SEP == 44
BACKSLASH == 92
LAST_CONTROL_CHAR == 31

ARRAY_VALUE_CONTEXT == "ARRAY_VALUE_CONTEXT"
OBJECT_VALUE_CONTEXT == "OBJECT_VALUE_CONTEXT"

\* bytes.isdigit() of a bytes object that is one byte or empty
isdigit(c) == c >= 48 /\ c <= 57

\* whitespace that is the space character only
isspace_OnlySpace(c) == c = 32


\* bytes.isspace(): the six ASCII whitespace bytes
isspace(c) == c \in {9, 10, 11, 12, 13, 32}

\* a digit test that also holds of the empty bytes object read at the end of
\* the input
is_digit_AtEOF(c) == c = EOF \/ isdigit(c)

is_digit(c) == isdigit(c)

-----------------------------------------------------------------------------
(* Matchers *)

Lit(b) == [pred |-> "", lit |-> b]
Pred(n) == [pred |-> n, lit |-> None]

M_EOF == Lit(EOF)
M_ARRAY_CLOSE == Lit(ARRAY_CLOSE)
M_OBJECT_CLOSE == Lit(OBJECT_CLOSE)
M_KV_SEP == Lit(KV_SEP)
M_IS_OBJECT_KEY_START == Pred("IS_OBJECT_KEY_START")
M_IS_VALUE_START == Pred("IS_VALUE_START")
M_IS_ARRAY_VALUE_START == Pred("IS_ARRAY_VALUE_START")
M_IS_OBJECT_VALUE_START == Pred("IS_OBJECT_VALUE_START")
M_IS_ARRAY_ITEM_SEP == Pred("IS_ARRAY_ITEM_SEP")
M_IS_OBJECT_ITEM_SEP == Pred("IS_OBJECT_ITEM_SEP")
M_NUMBER_FIRST == Pred("number_first")
M_IS_DIGIT == Pred("is_digit")
M_NOT_CONTROL_CHAR == Pred("NOT_CONTROL_CHAR")

IS_NUMBER_START(c) == c = NEGATIVE_SIGN \/ isdigit(c)

IS_OBJECT_KEY_START(c) == c = STRING_START

IS_VALUE_START(c) ==
    \/ c = OBJECT_OPEN
    \/ c = ARRAY_OPEN
    \/ c = STRING_START
    \/ IS_NUMBER_START(c)
    \/ c = NULL_START
    \/ c = TRUE_START
    \/ c = FALSE_START

IS_ARRAY_VALUE_START(c) == IS_VALUE_START(c)

IS_OBJECT_VALUE_START(c) == IS_VALUE_START(c)

IS_ARRAY_ITEM_SEP(c) == c = ITEM_SEP

IS_OBJECT_ITEM_SEP(c) == c = ITEM_SEP

\* calling the predicate a matcher names
CallMatcher(m, c) ==
    CASE m.pred = "IS_OBJECT_KEY_START" -> IS_OBJECT_KEY_START(c)
      [] m.pred = "IS_VALUE_START" -> IS_VALUE_START(c)
      [] m.pred = "IS_ARRAY_VALUE_START" -> IS_ARRAY_VALUE_START(c)
      [] m.pred = "IS_OBJECT_VALUE_START" -> IS_OBJECT_VALUE_START(c)
      [] m.pred = "IS_ARRAY_ITEM_SEP" -> IS_ARRAY_ITEM_SEP(c)
      [] m.pred = "IS_OBJECT_ITEM_SEP" -> IS_OBJECT_ITEM_SEP(c)
      [] m.pred = "number_first" -> c = NEGATIVE_SIGN \/ isdigit(c)
      [] m.pred = "is_digit" -> is_digit(c)
      [] OTHER -> FALSE

\* a matcher that takes either closing bracket for the one it names
Matches_EitherClose(m, c) ==
    IF m.pred # "" THEN CallMatcher(m, c)
    ELSE \/ c = m.lit
         \/ {c, m.lit} = {ARRAY_CLOSE, OBJECT_CLOSE}


\* (callable(matcher) and matcher(c)) or c == matcher
Matches(m, c) == IF m.pred # "" THEN CallMatcher(m, c) ELSE c = m.lit


-----------------------------------------------------------------------------
(* Exceptions *)

NoError == [type |-> "", char |-> None, idx |-> 0, matcher |-> Lit(None)]

\* UnexpectedCharacter(char, idx, matcher)
UnexpectedCharacter(c, idx, m) ==
    [type |-> "UnexpectedCharacter", char |-> c, idx |-> idx, matcher |-> m]

\* an exception of Python itself, or the AssertionError the parser raises
PyError(type, c, idx) ==
    [type |-> type, char |-> c, idx |-> idx, matcher |-> Lit(None)]

Raise(p, e) == [p EXCEPT !.pc = "error", !.err = e]

-----------------------------------------------------------------------------
(* Events *)

TopLevelEvent ==
    [STRING |-> "STRING", NUMBER |-> "NUMBER", NULL |-> "NULL",
     TRUE |-> "TRUE", FALSE |-> "FALSE"]

ArrayValueEvent ==
    [STRING |-> "ARRAY_VALUE_STRING", NUMBER |-> "ARRAY_VALUE_NUMBER",
     NULL |-> "ARRAY_VALUE_NULL", TRUE |-> "ARRAY_VALUE_TRUE",
     FALSE |-> "ARRAY_VALUE_FALSE"]

ObjectValueEvent ==
    [STRING |-> "OBJECT_VALUE_STRING", NUMBER |-> "OBJECT_VALUE_NUMBER",
     NULL |-> "OBJECT_VALUE_NULL", TRUE |-> "OBJECT_VALUE_TRUE",
     FALSE |-> "OBJECT_VALUE_FALSE"]

Top(s) == s[Len(s)]
Pop(s) == SubSeq(s, 1, Len(s) - 1)

-----------------------------------------------------------------------------
(* The byte cursor.  c0 is the byte stream.read(1) returns if it is called. *)

\* next_char(): the byte it returns
NextCharByte(p, c0) ==
    IF p.stuffed_char # None THEN p.stuffed_char ELSE c0

\* next_char() that returns the byte pushed back and leaves it pushed back
next_char_KeepsStuffed(p) ==
    IF p.stuffed_char # None THEN p ELSE [p EXCEPT !.char_num = @ + 1]


\* next_char() that counts a replayed byte as a read
next_char_CountsReplay(p) ==
    [p EXCEPT !.stuffed_char = None, !.char_num = @ + 1]


\* next_char(): the parser after the call
next_char(p) ==
    IF p.stuffed_char # None
    THEN [p EXCEPT !.stuffed_char = None]
    ELSE [p EXCEPT !.char_num = @ + 1]

stuff_char(p, c) ==
    IF p.stuffed_char # None
    THEN Raise(p, PyError("AssertionError", c, p.char_num))
    ELSE [p EXCEPT !.stuffed_char = c]

\* next_nonspace_char(): does its loop go round again on byte c?
SkipsSpace(c) == c # EOF /\ isspace(c)

-----------------------------------------------------------------------------
(* expect(matcher), after next_nonspace_char() has returned c.  m is an     *)
(* element of the expect stack: optional matchers, then the mandatory one.  *)

RECURSIVE FirstOptional(_, _, _)
FirstOptional(m, c, i) ==
    IF i >= Len(m) THEN 0
    ELSE IF Matches(m[i], c) THEN i
    ELSE FirstOptional(m, c, i + 1)

\* expect() that does not push the mandatory matcher back when the optional
\* one has matched
expect_match_ForgetsMandatory(p, m, c) ==
    LET i == FirstOptional(m, c, 1) IN
    IF i > 0 THEN [ok |-> TRUE, matcher |-> m[i], p |-> p]
    ELSE IF Matches(m[Len(m)], c)
    THEN [ok |-> TRUE, matcher |-> m[Len(m)], p |-> p]
    ELSE [ok |-> FALSE, matcher |-> m[Len(m)],
          p |-> Raise(p, UnexpectedCharacter(c, p.char_num, m[Len(m)]))]


expect_match(p, m, c) ==
    LET i == FirstOptional(m, c, 1) IN
    IF i > 0
    THEN [ok |-> TRUE, matcher |-> m[i],
          p |-> [p EXCEPT !.expect_stack =
                              Append(@, SubSeq(m, i + 1, Len(m)))]]
    ELSE IF Matches(m[Len(m)], c)
    THEN [ok |-> TRUE, matcher |-> m[Len(m)], p |-> p]
    ELSE [ok |-> FALSE, matcher |-> m[Len(m)],
          p |-> Raise(p, UnexpectedCharacter(c, p.char_num, m[Len(m)]))]

-----------------------------------------------------------------------------
(* next_event(): what it returns to parse(), which yields the event *)

\* parse(): yield event, value_gen
Yield(p, event, g, exp) ==
    [p EXCEPT !.events = Append(@, [event |-> event, value |-> << >>,
                                    gen |-> (g # "none"),
                                    pos |-> p.char_num]),
              !.gen = g, !.expect = exp, !.nread = 0, !.pc = "yield"]

\* the event of a scalar, with the tags of an object value for an array's
ScalarEvent_ObjectTags(p, name, g, m) ==
    IF m = M_IS_OBJECT_VALUE_START \/ m = M_IS_ARRAY_VALUE_START
    THEN IF p.expect_stack = << >>
         THEN Raise(p, PyError("IndexError", None, p.char_num))
         ELSE LET q == [p EXCEPT !.expect_stack = Pop(@)]
                  popped == Top(p.expect_stack)
              IN IF m = M_IS_OBJECT_VALUE_START
                 THEN Yield(q, ObjectValueEvent[name], g,
                            <<M_IS_OBJECT_ITEM_SEP>> \o popped)
                 ELSE Yield(q, ObjectValueEvent[name], g,
                            <<M_IS_ARRAY_ITEM_SEP>> \o popped)
    ELSE Yield(p, TopLevelEvent[name], g, << >>)


\* the event of a scalar and what to expect after it
ScalarEvent(p, name, g, m) ==
    IF m = M_IS_OBJECT_VALUE_START \/ m = M_IS_ARRAY_VALUE_START
    THEN IF p.expect_stack = << >>
         THEN Raise(p, PyError("IndexError", None, p.char_num))
         ELSE LET q == [p EXCEPT !.expect_stack = Pop(@)]
                  popped == Top(p.expect_stack)
              IN IF m = M_IS_OBJECT_VALUE_START
                 THEN Yield(q, ObjectValueEvent[name], g,
                            <<M_IS_OBJECT_ITEM_SEP>> \o popped)
                 ELSE Yield(q, ArrayValueEvent[name], g,
                            <<M_IS_ARRAY_ITEM_SEP>> \o popped)
    ELSE Yield(p, TopLevelEvent[name], g, << >>)

\* an array or object opens and notes a context for the top-level container
\* too
OpenEvent_AlwaysPushes(p, event, m, exp) ==
    LET q == IF m = M_IS_OBJECT_VALUE_START
             THEN [p EXCEPT !.container_value_context_stack =
                                Append(@, OBJECT_VALUE_CONTEXT)]
             ELSE [p EXCEPT !.container_value_context_stack =
                                Append(@, ARRAY_VALUE_CONTEXT)]
    IN Yield(q, event, "none", exp)


\* an array or object opens
OpenEvent(p, event, m, exp) ==
    LET q == IF m = M_IS_ARRAY_VALUE_START
             THEN [p EXCEPT !.container_value_context_stack =
                                Append(@, ARRAY_VALUE_CONTEXT)]
             ELSE IF m = M_IS_OBJECT_VALUE_START
             THEN [p EXCEPT !.container_value_context_stack =
                                Append(@, OBJECT_VALUE_CONTEXT)]
             ELSE p
    IN Yield(q, event, "none", exp)

\* an array or object closes and the separator expected after it is that of
\* its own kind, not that of the container around it
CloseEvent_OwnKind(p, event) ==
    IF p.container_value_context_stack # << >>
    THEN LET item_sep_matcher == IF event = "ARRAY_CLOSE"
                                 THEN M_IS_ARRAY_ITEM_SEP
                                 ELSE M_IS_OBJECT_ITEM_SEP
         IN IF p.expect_stack = << >>
            THEN Raise(p, PyError("IndexError", None, p.char_num))
            ELSE Yield([p EXCEPT !.container_value_context_stack = Pop(@),
                                 !.expect_stack = Pop(@)],
                       event, "none",
                       <<item_sep_matcher>> \o Top(p.expect_stack))
    ELSE Yield(p, event, "none", << >>)


\* an array or object closes
CloseEvent(p, event) ==
    IF p.container_value_context_stack # << >>
    THEN LET context == Top(p.container_value_context_stack)
             item_sep_matcher == IF context = ARRAY_VALUE_CONTEXT
                                 THEN M_IS_ARRAY_ITEM_SEP
                                 ELSE M_IS_OBJECT_ITEM_SEP
         IN IF p.expect_stack = << >>
            THEN Raise(p, PyError("IndexError", None, p.char_num))
            ELSE Yield([p EXCEPT !.container_value_context_stack = Pop(@),
                                 !.expect_stack = Pop(@)],
                       event, "none",
                       <<item_sep_matcher>> \o Top(p.expect_stack))
    ELSE Yield(p, event, "none", << >>)

\* an item separator after which a further item must come: the close that
\* was under the separator is not expected any more
ItemSepEvent_ItemRequired(p, event, start) ==
    Yield(p, event, "none", <<start>>)


\* an item separator: expect a further item or the close under it
ItemSepEvent(p, event, start) ==
    IF p.expect_stack = << >>
    THEN Raise(p, PyError("IndexError", None, p.char_num))
    ELSE Yield([p EXCEPT !.expect_stack = Pop(@)], event, "none",
               <<start>> \o Top(p.expect_stack))

\* the key/value separator as src/jsonite.py handles it: no event is yielded
KvSepEvent_Silent(p) ==
    [p EXCEPT !.matcher = <<M_IS_OBJECT_VALUE_START>>, !.pc = "expect"]

\* the key/value separator
KvSepEvent(p) == Yield(p, "KV_SEP", "none", <<M_IS_OBJECT_VALUE_START>>)

\* null, true, false: the bytes that must follow the first one
Keyword(p, name, bytes, m) ==
    [p EXCEPT !.pc = "keyword", !.kw = bytes, !.kw_name = name,
              !.matched = m]

\* the body of next_event() after expect() returned (c, m)
next_event(p, c, m) ==
    IF m = M_EOF THEN [p EXCEPT !.pc = "done"]
    ELSE IF c = ARRAY_OPEN
    THEN OpenEvent(p, "ARRAY_OPEN", m,
                   <<M_IS_ARRAY_VALUE_START, M_ARRAY_CLOSE>>)
    ELSE IF c = OBJECT_OPEN
    THEN OpenEvent(p, "OBJECT_OPEN", m,
                   <<M_IS_OBJECT_KEY_START, M_OBJECT_CLOSE>>)
    ELSE IF m = M_ARRAY_CLOSE THEN CloseEvent(p, "ARRAY_CLOSE")
    ELSE IF m = M_OBJECT_CLOSE THEN CloseEvent(p, "OBJECT_CLOSE")
    ELSE IF m = M_IS_OBJECT_KEY_START
    THEN Yield(p, "OBJECT_KEY", "string", <<M_KV_SEP>>)
    ELSE IF m = M_KV_SEP THEN KvSepEvent(p)
    ELSE IF m = M_IS_OBJECT_ITEM_SEP
    THEN ItemSepEvent(p, "OBJECT_ITEM_SEP", M_IS_OBJECT_KEY_START)
    ELSE IF m = M_IS_ARRAY_ITEM_SEP
    THEN ItemSepEvent(p, "ARRAY_ITEM_SEP", M_IS_ARRAY_VALUE_START)
    ELSE IF c = STRING_START THEN ScalarEvent(p, "STRING", "string", m)
    ELSE IF IS_NUMBER_START(c)
    THEN LET q == ScalarEvent(p, "NUMBER", "num_first", m)
         IN IF q.pc = "error" THEN q ELSE stuff_char(q, c)
    ELSE IF c = NULL_START THEN Keyword(p, "NULL", <<117, 108, 108>>, m)
    ELSE IF c = TRUE_START THEN Keyword(p, "TRUE", <<114, 117, 101>>, m)
    ELSE IF c = FALSE_START
    THEN Keyword(p, "FALSE", <<97, 108, 115, 101>>, m)
    ELSE Raise(p, PyError("AssertionError", c, p.char_num))

\* next_event() up to the byte that matches: pc = "expect".  The byte is
\* whitespace before a token or the first byte of one; its offset is noted.
ExpectStep(p, c0) ==
    LET c == NextCharByte(p, c0)
        r0 == next_char(p)
        q == [r0 EXCEPT !.token_gaps = @ \cup {r0.char_num}]
    IN IF SkipsSpace(c) THEN q
       ELSE LET r == expect_match(q, q.matcher, c)
            IN IF r.ok THEN next_event(r.p, c, r.matcher) ELSE r.p

\* self.expect(b'u') and the like: pc = "keyword"
KeywordStep(p, c0) ==
    LET c == NextCharByte(p, c0)
        q == next_char(p)
    IN IF SkipsSpace(c) THEN q
       ELSE LET r == expect_match(q, <<Lit(Head(q.kw))>>, c)
            IN IF ~r.ok THEN r.p
               ELSE IF Len(q.kw) > 1 THEN [q EXCEPT !.kw = Tail(@)]
               ELSE ScalarEvent([q EXCEPT !.kw = << >>], q.kw_name, "none",
                                q.matched)


-----------------------------------------------------------------------------
(* The value generators parse_string() and parse_number().  A generator     *)
(* step runs from one next_char() to the next: out says whether it yielded  *)
(* a byte, returned, raised, or goes on to read another byte.               *)

\* yield c: the byte joins the payload of the event the generator belongs to
YieldByte(p, c) ==
    [p |-> [p EXCEPT !.events[Len(p.events)].value = Append(@, c)],
     out |-> "yield"]

GenRaise(p, e) == [p |-> Raise(p, e), out |-> "raise"]

\* yield_while(is_digit), then g is where the generator goes on
YieldWhileDigit(p, c, g) ==
    IF ~is_digit(c)
    THEN LET q == stuff_char(p, c)
         IN IF q.pc = "error" THEN [p |-> q, out |-> "raise"]
            ELSE IF g = "done"
            THEN [p |-> [q EXCEPT !.gen = "done"], out |-> "return"]
            ELSE [p |-> [q EXCEPT !.gen = g], out |-> "continue"]
    ELSE YieldByte(p, c)

\* parse_string() with c[0] < 0x1f for its test of a control character
parse_string_Below(p, c) ==
    IF c = STRING_TERMINATOR
    THEN [p |-> [p EXCEPT !.gen = "done"], out |-> "return"]
    ELSE IF c = EOF
    THEN GenRaise(p, PyError("IndexError", c, p.char_num))
    ELSE IF c < LAST_CONTROL_CHAR
    THEN GenRaise(p, UnexpectedCharacter(c, p.char_num, M_NOT_CONTROL_CHAR))
    ELSE YieldByte(p, c)


parse_string(p, c) ==
    IF c = STRING_TERMINATOR
    THEN [p |-> [p EXCEPT !.gen = "done"], out |-> "return"]
    ELSE IF c = EOF
    THEN GenRaise(p, PyError("IndexError", c, p.char_num))
    ELSE IF c <= LAST_CONTROL_CHAR
    THEN GenRaise(p, UnexpectedCharacter(c, p.char_num, M_NOT_CONTROL_CHAR))
    ELSE YieldByte(p, c)

parse_number(p, c) ==
    CASE p.gen = "num_first" ->
           IF SkipsSpace(c) THEN [p |-> p, out |-> "continue"]
           ELSE IF Matches(M_NUMBER_FIRST, c)
           THEN YieldByte([p EXCEPT !.gen = "num_int"], c)
           ELSE GenRaise(p, UnexpectedCharacter(c, p.char_num, M_NUMBER_FIRST))
      [] p.gen = "num_int" -> YieldWhileDigit(p, c, "num_point")
      [] p.gen = "num_point" ->
           IF c # PERIOD
           THEN LET q == stuff_char(p, c)
                IN IF q.pc = "error" THEN [p |-> q, out |-> "raise"]
                   ELSE [p |-> [q EXCEPT !.gen = "done"], out |-> "return"]
           ELSE YieldByte([p EXCEPT !.gen = "num_frac_first"], c)
      [] p.gen = "num_frac_first" ->
           IF SkipsSpace(c) THEN [p |-> p, out |-> "continue"]
           ELSE IF Matches(M_IS_DIGIT, c)
           THEN YieldByte([p EXCEPT !.gen = "num_frac"], c)
           ELSE GenRaise(p, UnexpectedCharacter(c, p.char_num, M_IS_DIGIT))
      [] p.gen = "num_frac" -> YieldWhileDigit(p, c, "done")

GenActive(g) == g \notin {"none", "done"}

\* one step of the value generator of the current event
GenStep(p, c0) ==
    LET c == NextCharByte(p, c0)
        q == next_char(p)
    IN IF q.gen = "string" THEN parse_string(q, c) ELSE parse_number(q, c)

-----------------------------------------------------------------------------
(* parse() *)

\* parse(), after the drain: push what to expect, call next_event(), which
\* pops the expect stack
AfterDrain(p) ==
    LET stack == IF p.expect # << >> THEN Append(p.expect_stack, p.expect)
                 ELSE p.expect_stack
    IN IF stack = << >>
       THEN Raise(p, PyError("IndexError", None, p.char_num))
       ELSE [p EXCEPT !.expect_stack = Pop(stack), !.matcher = Top(stack),
                      !.expect = << >>, !.gen = "none", !.pc = "expect"]

\* parse() without lines 262-264: the value generator is left where the
\* consumer stopped reading
Resume_NoDrain(p) == AfterDrain(p)


\* the consumer asks for the next event: parse() resumes after its yield
\* and drains the value generator if it has not run to its end
Resume(p) ==
    IF GenActive(p.gen) THEN [p EXCEPT !.pc = "drain"] ELSE AfterDrain(p)

\* for _ in value_gen: pass
DrainStep(p, c0) ==
    LET r == GenStep(p, c0)
    IN IF r.out = "return" THEN AfterDrain(r.p) ELSE r.p

\* the consumer calls next(value_gen)
ValueGenStep(p, c0) ==
    LET r == GenStep(p, c0)
    IN IF r.out = "yield"
       THEN [r.p EXCEPT !.pc = "yield", !.nread = @ + 1]
       ELSE IF r.out = "return" THEN [r.p EXCEPT !.pc = "yield"]
       ELSE r.p

-----------------------------------------------------------------------------
(* The parser as a state machine *)

\* a parser constructed to expect two values before the end of the input
NewParser_TwoValues ==
    [char_num |-> 0, stuffed_char |-> None,
     expect_stack |-> << <<M_EOF>>, <<M_IS_VALUE_START>>,
                         <<M_IS_VALUE_START>> >>,
     container_value_context_stack |-> << >>,
     pc |-> "yield", matcher |-> << >>, kw |-> << >>, kw_name |-> "",
     matched |-> Lit(None), gen |-> "none", expect |-> << >>,
     events |-> << >>, nread |-> 0, token_gaps |-> {}, err |-> NoError]


\* Parser.__init__, and parse() not yet started
NewParser ==
    [char_num |-> 0, stuffed_char |-> None,
     expect_stack |-> << <<M_EOF>>, <<M_IS_VALUE_START>> >>,
     container_value_context_stack |-> << >>,
     pc |-> "yield", matcher |-> << >>, kw |-> << >>, kw_name |-> "",
     matched |-> Lit(None), gen |-> "none", expect |-> << >>,
     events |-> << >>, nread |-> 0, token_gaps |-> {}, err |-> NoError]

P ==
    [char_num |-> char_num, stuffed_char |-> stuffed_char,
     expect_stack |-> expect_stack,
     container_value_context_stack |-> container_value_context_stack,
     pc |-> pc, matcher |-> matcher, kw |-> kw, kw_name |-> kw_name,
     matched |-> matched, gen |-> gen, expect |-> expect,
     events |-> events, nread |-> nread, token_gaps |-> token_gaps,
     err |-> err]

Set(q) ==
    /\ char_num' = q.char_num
    /\ stuffed_char' = q.stuffed_char
    /\ expect_stack' = q.expect_stack
    /\ container_value_context_stack' = q.container_value_context_stack
    /\ pc' = q.pc
    /\ matcher' = q.matcher
    /\ kw' = q.kw
    /\ kw_name' = q.kw_name
    /\ matched' = q.matched
    /\ gen' = q.gen
    /\ expect' = q.expect
    /\ events' = q.events
    /\ nread' = q.nread
    /\ token_gaps' = q.token_gaps
    /\ err' = q.err

\* the bytes of the documents whose content is left open
Alphabet ==
    {34, 44, 45, 46, 48, 49, 58, 91, 93, 123, 125,
     32, 10, 11, 31, 92, 101, 108, 110, 117}

\* documents of the tests and of the specification, and two with a wrong
\* byte after the close of a container nested in an object
TestDocs ==
    {
      <<34, 116, 101, 115, 116, 34>>,   \* "test"
      <<34, 206, 186, 207, 140, 207, 131, 206, 188, 206, 181, 34>>,   \* "\xce\xba\xcf\x8c\xcf\x83\xce\xbc\xce\xb5"
      <<48>>,   \* 0
      <<49, 51>>,   \* 13
      <<45, 51>>,   \* -3
      <<51, 46, 49, 52, 49, 53>>,   \* 3.1415
      <<45, 51, 46, 49, 52, 49, 53>>,   \* -3.1415
      <<110, 117, 108, 108>>,   \* null
      <<116, 114, 117, 101>>,   \* true
      <<102, 97, 108, 115, 101>>,   \* false
      <<45, 51, 46, 49, 52, 46, 45, 49, 45, 53>>,   \* -3.14.-1-5
      <<91, 93>>,   \* []
      <<123, 125>>,   \* {}
      <<91, 49, 93>>,   \* [1]
      <<91, 49, 44, 93>>,   \* [1,]
      <<123, 34, 97, 34, 58, 32, 48, 125>>,   \* {"a": 0}
      <<123, 34, 97, 34, 58, 32, 48, 44, 125>>,   \* {"a": 0,}
      <<123, 34, 97, 34, 58, 48, 125>>,   \* {"a":0}
      <<123, 34, 97, 34, 58, 48, 44, 125>>,   \* {"a":0,}
      <<34, 0, 34>>,   \* "\x00"
      <<34, 31, 34>>,   \* "\x1f"
      <<34, 32, 34>>,   \* " "
      <<123, 34, 97, 95, 92, 34, 103, 111, 111, 100, 92, 34, 95, 107, 101, 121, 34, 58, 32, 48, 125>>,   \* {"a_\"good\"_key": 0}
      <<34, 49, 32, 92, 117, 48, 48, 51, 50, 32, 92, 117, 48, 48, 51, 51, 32, 52, 32, 92, 117, 48, 48, 51, 53, 34>>,   \* "1 \u0032 \u0033 4 \u0035"
      <<34, 92, 117, 48, 48, 48, 48, 34>>,   \* "\u0000"
      <<49, 101, 49, 48>>,   \* 1e10
      <<45>>,   \* -
      <<91, 91, 49, 93, 44, 123, 34, 98, 34, 58, 91, 93, 125, 93>>,   \* [[1],{"b":[]}]
      <<123, 34, 97, 34, 58, 123, 34, 98, 34, 58, 110, 117, 108, 108, 125, 44, 34, 99, 34, 58, 91, 116, 114, 117, 101, 44, 102, 97, 108, 115, 101, 93, 125>>,   \* {"a":{"b":null},"c":[true,false]}
      <<32, 91, 9, 49, 32, 44, 13, 10, 50, 32, 93, 32>>,   \*  [\x091 ,\x0d\x0a2 ] 
      <<34, 92, 34, 34>>,   \* "\""
      <<123, 34, 107, 34, 58, 34, 118, 34, 44, 34, 110, 34, 58, 91, 45, 49, 46, 53, 44, 34, 115, 34, 93, 125>>,   \* {"k":"v","n":[-1.5,"s"]}
      <<91, 91, 49, 44, 93, 44, 123, 34, 98, 34, 58, 91, 93, 44, 125, 44, 93>>,   \* [[1,],{"b":[],},]
      <<123, 34, 97, 34, 58, 91, 93, 93>>,   \* {"a":[]]
      <<123, 34, 97, 34, 58, 123, 125, 58>>   \* {"a":{}:
    }

\* what stream.read(1) may return; None if next_char() does not call it
StreamChoices ==
    IF stuffed_char # None THEN {None}
    ELSE IF open
    THEN IF Len(data) < MaxLen THEN Alphabet \cup {EOF} ELSE {EOF}
    ELSE IF rest = << >> THEN {EOF} ELSE {Head(rest)}

\* stream.read(1) returned c0
StreamRead(c0) ==
    IF c0 = None THEN UNCHANGED <<data, rest, open>>
    ELSE /\ data' = IF c0 = EOF THEN data ELSE Append(data, c0)
         /\ rest' = IF rest = << >> THEN rest ELSE Tail(rest)
         /\ open' = (open /\ c0 # EOF)

\* yield_paths() is not called
NoPaths ==
    /\ paths = << >>
    /\ unyielded_path_idxs = {}
    /\ path = << >>
    /\ yielded = << >>
    /\ loading = [idx |-> 0, opened |-> 0, started |-> FALSE,
                  L |-> [root |-> << "null" >>, container |-> << >>,
                         container_stack |-> << >>, key |-> << "null" >>,
                         raised |-> ""]]
    /\ paths_pc = "none"
    /\ paths_raised = ""

\* no UTF8Decoder is constructed
NoDecoder ==
    /\ input = << >>
    /\ stream = << >>
    /\ byte_num = 0
    /\ first_read = TRUE
    /\ errors = 0
    /\ num_pending_replacement = 0
    /\ disallow_nonchars = TRUE
    /\ output = << >>
    /\ rejected = << >>
    /\ depth = 0
    /\ raised = ""

\* the fields of a parser that has just been constructed
FreshParser ==
    /\ char_num = NewParser.char_num
    /\ stuffed_char = NewParser.stuffed_char
    /\ expect_stack = NewParser.expect_stack
    /\ container_value_context_stack = NewParser.container_value_context_stack
    /\ pc = NewParser.pc
    /\ matcher = NewParser.matcher
    /\ kw = NewParser.kw
    /\ kw_name = NewParser.kw_name
    /\ matched = NewParser.matched
    /\ gen = NewParser.gen
    /\ expect = NewParser.expect
    /\ events = NewParser.events
    /\ nread = NewParser.nread
    /\ token_gaps = NewParser.token_gaps
    /\ err = NewParser.err

Init ==
    /\ data = << >>
    /\ \/ open = TRUE /\ rest = << >>
       \/ open = FALSE /\ rest \in TestDocs
    /\ FreshParser
    /\ NoPaths
    /\ NoDecoder

\* the consumer calls next() on the generator parse() returned
ParseNext ==
    /\ pc = "yield"
    /\ Set(Resume(P))
    /\ UNCHANGED <<data, rest, open>>
    /\ UNCHANGED <<paths_vars, decoder_vars>>

\* the consumer calls next() on the value generator of the current event
ValueNext ==
    /\ pc = "yield"
    /\ GenActive(gen)
    /\ pc' = "value_gen"
    /\ UNCHANGED <<data, rest, open, char_num, stuffed_char, expect_stack,
                   container_value_context_stack, matcher, kw, kw_name,
                   matched, gen, expect, events, nread, token_gaps, err>>
    /\ UNCHANGED <<paths_vars, decoder_vars>>

\* next_event() reads the byte its matcher is tried on
Expect ==
    /\ pc = "expect"
    /\ \E c0 \in StreamChoices : Set(ExpectStep(P, c0)) /\ StreamRead(c0)
    /\ UNCHANGED <<paths_vars, decoder_vars>>

\* next_event() reads a further byte of null, true or false
ExpectKeyword ==
    /\ pc = "keyword"
    /\ \E c0 \in StreamChoices : Set(KeywordStep(P, c0)) /\ StreamRead(c0)
    /\ UNCHANGED <<paths_vars, decoder_vars>>

\* the value generator runs for the consumer
ValueGen ==
    /\ pc = "value_gen"
    /\ \E c0 \in StreamChoices : Set(ValueGenStep(P, c0)) /\ StreamRead(c0)
    /\ UNCHANGED <<paths_vars, decoder_vars>>

\* the value generator runs for parse(), which discards what it yields
Drain ==
    /\ pc = "drain"
    /\ \E c0 \in StreamChoices : Set(DrainStep(P, c0)) /\ StreamRead(c0)
    /\ UNCHANGED <<paths_vars, decoder_vars>>

Next ==
    \/ ParseNext
    \/ ValueNext
    \/ Expect
    \/ ExpectKeyword
    \/ ValueGen
    \/ Drain

Spec == Init /\ [][Next]_vars

\* the value generator raises in a call the consumer has made; the consumer
\* catches the exception and calls next() on the generator parse() returned,
\* which is still suspended at its yield: the value generator has ended, so
\* the drain does nothing and parse() goes on to next_event()
ValueGenCaught ==
    /\ pc = "value_gen"
    /\ \E c0 \in StreamChoices :
         \E r \in {ValueGenStep(P, c0)} :
           /\ r.pc = "error"
           /\ Set(AfterDrain([r EXCEPT !.err = NoError, !.gen = "done"]))
           /\ StreamRead(c0)
    /\ UNCHANGED <<paths_vars, decoder_vars>>

NextCaught ==
    \/ Next
    \/ ValueGenCaught

\* the parser with a consumer that may go on after an exception of a value
\* generator
SpecCaught == Init /\ [][NextCaught]_vars

\* the parser with a consumer that keeps requesting: whenever parse() or a
\* value generator is suspended at a yield the consumer calls next() on one
\* of them, and code that has been called runs on to its next yield, return
\* or raise
SpecLive == Init /\ [][Next]_vars /\ WF_vars(Next)

-----------------------------------------------------------------------------
(* A whole parse as a function of the document, for a consumer that reads   *)
(* every payload to its end before it asks for the next event (as the test  *)
(* helper parse() of src/test.py and convert() do with b''.join).           *)

StepAt(p, c0) ==
    CASE p.pc = "expect" -> ExpectStep(p, c0)
      [] p.pc = "keyword" -> KeywordStep(p, c0)
      [] p.pc = "value_gen" -> ValueGenStep(p, c0)
      [] p.pc = "drain" -> DrainStep(p, c0)

\* a parser together with the bytes still in its stream
Fed(p, bytes) == [p |-> p, bytes |-> bytes]

\* run the parser until parse() or the value generator hands control back
RECURSIVE RunUntilYield(_, _)
RunUntilYield(p, bytes) ==
    IF p.pc \in {"yield", "done", "error"} THEN Fed(p, bytes)
    ELSE IF p.stuffed_char # None \/ bytes = << >>
    THEN RunUntilYield(StepAt(p, EOF), bytes)
    ELSE RunUntilYield(StepAt(p, Head(bytes)), Tail(bytes))

\* next(parse_gen)
PullEvent(f) == RunUntilYield(Resume(f.p), f.bytes)

\* next(value_gen)
PullByte(f) == RunUntilYield([f.p EXCEPT !.pc = "value_gen"], f.bytes)

\* b''.join(value_gen): read the payload of the current event to its end
RECURSIVE ReadPayload(_)
ReadPayload(f) ==
    IF f.p.pc = "yield" /\ GenActive(f.p.gen) THEN ReadPayload(PullByte(f))
    ELSE f

\* the test helper parse() of src/test.py: every event, every payload whole
RECURSIVE RunFrom(_)
RunFrom(f) ==
    IF f.p.pc \in {"done", "error"} THEN f.p
    ELSE RunFrom(ReadPayload(PullEvent(f)))

Run(doc) == RunFrom(Fed(NewParser, doc))

\* the document: what has been read, and what is still in the stream
Doc == data \o rest

Terminated == pc \in {"done", "error"}

\* the events of a parse as the test helper parse() collects them
Collected(evs) ==
    [i \in 1..Len(evs) |-> IF evs[i].gen THEN <<evs[i].event, evs[i].value>>
                           ELSE <<evs[i].event>>]

-----------------------------------------------------------------------------
(* convert(): Python values.  None is <<"null">>, True <<"true">>, False    *)
(* <<"false">>, a str <<"str", code points>>, an int <<"int", n>>, a float  *)
(* <<"float", n, x>> for n * 10^x with n not a multiple of 10 (or 0, 0), a  *)
(* list <<"list", items>> and a dict <<"dict", function from keys>>.        *)

PyNone == <<"null">>
PyTrue == <<"true">>
PyFalse == <<"false">>
PyStr(cps) == <<"str", cps>>
PyInt(n) == <<"int", n>>
PyList(items) == <<"list", items>>
PyDict(items) == <<"dict", items>>

IsCont(b) == b >= 128 /\ b <= 191

\* bytes.decode('utf-8') of the character that starts at bytes[i]:
\* its length (0 if the bytes are not valid UTF-8 there) and code point
Utf8Char(bytes, i) ==
    LET n == Len(bytes)
        b0 == bytes[i]
        b1 == IF i + 1 <= n THEN bytes[i + 1] ELSE 0
        b2 == IF i + 2 <= n THEN bytes[i + 2] ELSE 0
        b3 == IF i + 3 <= n THEN bytes[i + 3] ELSE 0
        bad == [len |-> 0, cp |-> 0]
    IN IF b0 < 128 THEN [len |-> 1, cp |-> b0]
       ELSE IF b0 >= 194 /\ b0 <= 223
       THEN IF IsCont(b1)
            THEN [len |-> 2, cp |-> (b0 - 192) * 64 + (b1 - 128)]
            ELSE bad
       ELSE IF b0 >= 224 /\ b0 <= 239
       THEN IF /\ IsCont(b1) /\ IsCont(b2)
               /\ (b0 = 224 => b1 >= 160)
               /\ (b0 = 237 => b1 <= 159)
            THEN [len |-> 3,
                  cp |-> (b0 - 224) * 4096 + (b1 - 128) * 64 + (b2 - 128)]
            ELSE bad
       ELSE IF b0 >= 240 /\ b0 <= 244
       THEN IF /\ IsCont(b1) /\ IsCont(b2) /\ IsCont(b3)
               /\ (b0 = 240 => b1 >= 144)
               /\ (b0 = 244 => b1 <= 143)
            THEN [len |-> 4,
                  cp |-> (b0 - 240) * 262144 + (b1 - 128) * 4096
                         + (b2 - 128) * 64 + (b3 - 128)]
            ELSE bad
       ELSE bad

\* bytes.decode('utf-8')
RECURSIVE Utf8Decode(_, _, _)
Utf8Decode(bytes, i, acc) ==
    IF i > Len(bytes) THEN [ok |-> TRUE, cps |-> acc]
    ELSE LET ch == Utf8Char(bytes, i)
         IN IF ch.len = 0 THEN [ok |-> FALSE, cps |-> acc]
            ELSE Utf8Decode(bytes, i + ch.len, Append(acc, ch.cp))

\* the number a run of decimal digits writes
RECURSIVE DigitsValue(_, _)
DigitsValue(ds, acc) ==
    IF ds = << >> THEN acc
    ELSE DigitsValue(Tail(ds), acc * 10 + (Head(ds) - 48))

\* n * 10^x written without the trailing zeros of n
RECURSIVE Normal(_, _)
Normal(n, x) ==
    IF n = 0 THEN <<"float", 0, 0>>
    ELSE IF n % 10 = 0 THEN Normal(n \div 10, x + 1)
    ELSE <<"float", n, x>>

Digits(s) == SelectSeq(s, isdigit)

\* int(s)
PyIntOf(s) ==
    LET neg == s # << >> /\ s[1] = NEGATIVE_SIGN
        ds == IF neg THEN Tail(s) ELSE s
    IN IF ds = << >> \/ Digits(ds) # ds
       THEN [ok |-> FALSE, val |-> PyNone, raised |-> "ValueError"]
       ELSE [ok |-> TRUE, raised |-> "",
             val |-> PyInt(IF neg THEN 0 - DigitsValue(ds, 0)
                           ELSE DigitsValue(ds, 0))]

\* the index of the first PERIOD in s, 0 if there is none
RECURSIVE IndexOf(_, _, _)
IndexOf(s, b, i) ==
    IF i > Len(s) THEN 0
    ELSE IF s[i] = b THEN i
    ELSE IndexOf(s, b, i + 1)

\* float(s), for the payloads parse_number() can yield
PyFloatOf(s) ==
    LET neg == s # << >> /\ s[1] = NEGATIVE_SIGN
        body == IF neg THEN Tail(s) ELSE s
        dot == IndexOf(body, PERIOD, 1)
        int_part == SubSeq(body, 1, dot - 1)
        frac_part == SubSeq(body, dot + 1, Len(body))
        mant == DigitsValue(int_part \o frac_part, 0)
    IN IF \/ dot = 0
          \/ Digits(int_part) # int_part
          \/ Digits(frac_part) # frac_part
          \/ int_part \o frac_part = << >>
       THEN [ok |-> FALSE, val |-> PyNone, raised |-> "ValueError"]
       ELSE [ok |-> TRUE, raised |-> "",
             val |-> Normal(IF neg THEN 0 - mant ELSE mant,
                            0 - Len(frac_part))]

NullEvents == {"ARRAY_VALUE_NULL", "OBJECT_VALUE_NULL", "NULL"}
TrueEvents == {"ARRAY_VALUE_TRUE", "OBJECT_VALUE_TRUE", "TRUE"}
FalseEvents == {"ARRAY_VALUE_FALSE", "OBJECT_VALUE_FALSE", "FALSE"}
StringEvents ==
    {"ARRAY_VALUE_STRING", "OBJECT_VALUE_STRING", "STRING", "OBJECT_KEY"}
NumberEvents == {"ARRAY_VALUE_NUMBER", "OBJECT_VALUE_NUMBER", "NUMBER"}

\* convert(event, value) once b''.join(value) has returned s
convert(event, s) ==
    IF event \in NullEvents THEN [ok |-> TRUE, val |-> PyNone, raised |-> ""]
    ELSE IF event \in TrueEvents
    THEN [ok |-> TRUE, val |-> PyTrue, raised |-> ""]
    ELSE IF event \in FalseEvents
    THEN [ok |-> TRUE, val |-> PyFalse, raised |-> ""]
    ELSE IF event \in StringEvents
    THEN LET u == Utf8Decode(s, 1, << >>)
         IN IF u.ok THEN [ok |-> TRUE, val |-> PyStr(u.cps), raised |-> ""]
            ELSE [ok |-> FALSE, val |-> PyNone,
                  raised |-> "UnicodeDecodeError"]
    ELSE IF event \in NumberEvents
    THEN IF IndexOf(s, PERIOD, 1) > 0 THEN PyFloatOf(s) ELSE PyIntOf(s)
    ELSE [ok |-> FALSE, val |-> PyNone, raised |-> "NotImplementedError"]

-----------------------------------------------------------------------------
(* load().  The containers it builds are one tree, root; the variable       *)
(* container of the source, a reference into that tree, is the path from    *)
(* the root to the container it refers to, and container_stack holds the    *)
(* paths of the containers pushed on it.                                    *)

ArrayValueEvents ==
    {"ARRAY_VALUE_STRING", "ARRAY_VALUE_NUMBER", "ARRAY_VALUE_NULL",
     "ARRAY_VALUE_TRUE", "ARRAY_VALUE_FALSE"}

ObjectValueEvents ==
    {"OBJECT_VALUE_STRING", "OBJECT_VALUE_NUMBER", "OBJECT_VALUE_NULL",
     "OBJECT_VALUE_TRUE", "OBJECT_VALUE_FALSE"}

TopLevelEvents == {"STRING", "NUMBER", "NULL", "TRUE", "FALSE"}

EmptyDict == [k \in {} |-> PyNone]

RECURSIVE GetAt(_, _)
GetAt(node, at) ==
    IF at = << >> THEN node
    ELSE GetAt(node[2][Head(at)], Tail(at))

RECURSIVE SetAt(_, _, _)
SetAt(node, at, new) ==
    IF at = << >> THEN new
    ELSE <<node[1], [node[2] EXCEPT ![Head(at)] = SetAt(@, Tail(at), new)]>>

\* convert(event, value) of the current event: joins the whole payload
Convert(f) ==
    LET g == ReadPayload(f)
        ev == Top(g.p.events)
        c == convert(ev.event, ev.value)
    IN IF g.p.pc = "error"
       THEN [f |-> g, ok |-> FALSE, val |-> PyNone, raised |-> g.p.err.type]
       ELSE [f |-> g, ok |-> c.ok, val |-> c.val, raised |-> c.raised]

LoadReturn(f, val) == [f |-> f, raised |-> "", val |-> val]
LoadRaise(f, type) == [f |-> f, raised |-> type, val |-> PyNone]

\* container.append(v)
ListAppend(L, v) ==
    LET node == GetAt(L.root, L.container)
    IN IF node[1] = "list"
       THEN [L EXCEPT !.root = SetAt(@, L.container,
                                     PyList(Append(node[2], v)))]
       ELSE [L EXCEPT !.raised = "AttributeError"]

\* container[key] = v
DictSet(L, v) ==
    LET node == GetAt(L.root, L.container)
    IN IF node[1] = "dict"
       THEN [L EXCEPT !.root = SetAt(@, L.container,
                                     PyDict((L.key :> v) @@ node[2]))]
       ELSE [L EXCEPT !.raised = "TypeError"]

open_container(L, c) ==
    LET node == GetAt(L.root, L.container)
        attached == IF node[1] = "list" THEN ListAppend(L, c)
                    ELSE DictSet(L, c)
        seg == IF node[1] = "list" THEN Len(node[2]) + 1 ELSE L.key
    IN [attached EXCEPT !.container_stack = Append(@, L.container),
                        !.container = Append(@, seg)]

close_container(L) ==
    [L EXCEPT !.container = Top(L.container_stack),
              !.container_stack = Pop(@)]

\* the body of the loop of load() for one event, c its converted payload
LoadApply(L, event, c) ==
    IF event = "ARRAY_OPEN" THEN open_container(L, PyList(<< >>))
    ELSE IF event = "OBJECT_OPEN" THEN open_container(L, PyDict(EmptyDict))
    ELSE IF event = "ARRAY_CLOSE" \/ event = "OBJECT_CLOSE"
    THEN IF Len(L.container_stack) = 0 THEN L ELSE close_container(L)
    ELSE IF event \in ArrayValueEvents
    THEN IF c.ok THEN ListAppend(L, c.val) ELSE [L EXCEPT !.raised = c.raised]
    ELSE IF event = "OBJECT_KEY"
    THEN IF c.ok THEN [L EXCEPT !.key = c.val]
         ELSE [L EXCEPT !.raised = c.raised]
    ELSE IF event \in ObjectValueEvents
    THEN IF c.ok THEN DictSet(L, c.val) ELSE [L EXCEPT !.raised = c.raised]
    ELSE L

\* if len(container_stack) == 0: break
LoadStops(L, event) ==
    /\ event = "ARRAY_CLOSE" \/ event = "OBJECT_CLOSE"
    /\ Len(L.container_stack) = 0

\* the body of the loop of load() for one event; stop: the loop breaks
LoadEvent(L, f) ==
    LET event == Top(f.p.events).event
        c == Convert(f)
    IN [L |-> LoadApply(L, event, c), f |-> c.f,
        stop |-> LoadStops(L, event)]

\* for event, value in parse_gen: ...
RECURSIVE LoadLoop(_, _)
LoadLoop(L, f) ==
    LET g == PullEvent(f)
    IN IF g.p.pc = "error" THEN LoadRaise(g, g.p.err.type)
       ELSE IF g.p.pc = "done" THEN LoadReturn(g, L.root)
       ELSE LET r == LoadEvent(L, g)
            IN IF r.L.raised # "" THEN LoadRaise(r.f, r.L.raised)
               ELSE IF r.stop THEN LoadReturn(r.f, r.L.root)
               ELSE LoadLoop(r.L, r.f)

\* load(parse_gen), with f the parser and stream parse_gen runs on
load(f) ==
    LET g == PullEvent(f)
        event == Top(g.p.events).event
        c == Convert(g)
        L0 == [root |-> IF event \in {"OBJECT_OPEN", "OBJECT_KEY"}
                        THEN PyDict(EmptyDict) ELSE PyList(<< >>),
               container |-> << >>, container_stack |-> << >>,
               key |-> PyNone, raised |-> ""]
    IN IF g.p.pc = "error" THEN LoadRaise(g, g.p.err.type)
       ELSE IF g.p.pc = "done" THEN LoadRaise(g, "StopIteration")
       ELSE IF event \in TopLevelEvents
       THEN IF c.ok THEN LoadReturn(c.f, c.val) ELSE LoadRaise(c.f, c.raised)
       ELSE IF event \in {"OBJECT_OPEN", "OBJECT_KEY", "ARRAY_OPEN"}
                         \cup ArrayValueEvents
       THEN IF event \in ArrayValueEvents
            THEN IF c.ok THEN LoadLoop(ListAppend(L0, c.val), c.f)
                 ELSE LoadRaise(c.f, c.raised)
            ELSE IF event = "OBJECT_KEY"
            THEN IF c.ok THEN LoadLoop([L0 EXCEPT !.key = c.val], c.f)
                 ELSE LoadRaise(c.f, c.raised)
            ELSE LoadLoop(L0, g)
       ELSE LoadRaise(g, "NotImplementedError")

\* Parser(stream).load()
Load(doc) == load(Fed(NewParser, doc))

-----------------------------------------------------------------------------
(* A reference JSON reader (RFC 8259), written from the grammar and not     *)
(* from the parser: what a well-formed document is and the value it has,    *)
(* in the representation of values given above.                             *)

JsonWhitespace == {32, 9, 10, 13}

RefFail == [ok |-> FALSE, pos |-> 0, val |-> PyNone]
RefGot(pos, val) == [ok |-> TRUE, pos |-> pos, val |-> val]

At(d, i) == IF i >= 1 /\ i <= Len(d) THEN d[i] ELSE EOF

RECURSIVE RefSkipWs(_, _)
RefSkipWs(d, i) ==
    IF At(d, i) \in JsonWhitespace THEN RefSkipWs(d, i + 1) ELSE i

\* the index after the last of the digits that start at d[i]
RECURSIVE RefDigitsEnd(_, _)
RefDigitsEnd(d, i) ==
    IF isdigit(At(d, i)) THEN RefDigitsEnd(d, i + 1) ELSE i

HexValue(c) ==
    IF c >= 48 /\ c <= 57 THEN c - 48
    ELSE IF c >= 97 /\ c <= 102 THEN c - 87
    ELSE IF c >= 65 /\ c <= 70 THEN c - 55
    ELSE -1

\* the value of the four hex digits at d[i..i+3], -1 if they are not
Hex4(d, i) ==
    LET a == HexValue(At(d, i))
        b == HexValue(At(d, i + 1))
        c == HexValue(At(d, i + 2))
        e == HexValue(At(d, i + 3))
    IN IF a < 0 \/ b < 0 \/ c < 0 \/ e < 0 THEN -1
       ELSE a * 4096 + b * 256 + c * 16 + e

SimpleEscape(c) ==
    CASE c = 34 -> 34
      [] c = 92 -> 92
      [] c = 47 -> 47
      [] c = 98 -> 8
      [] c = 102 -> 12
      [] c = 110 -> 10
      [] c = 114 -> 13
      [] c = 116 -> 9
      [] OTHER -> -1

\* the characters of a string from d[i] on, up to its closing quote
RECURSIVE RefStringBody(_, _, _)
RefStringBody(d, i, acc) ==
    LET c == At(d, i) IN
    IF c = EOF \/ c < 32 THEN RefFail
    ELSE IF c = 34 THEN RefGot(i + 1, PyStr(acc))
    ELSE IF c = 92
    THEN LET e == At(d, i + 1)
         IN IF e = 117
            THEN LET u == Hex4(d, i + 2)
                     lo == IF At(d, i + 6) = 92 /\ At(d, i + 7) = 117
                           THEN Hex4(d, i + 8) ELSE -1
                 IN IF u < 0 THEN RefFail
                    ELSE IF /\ u >= 55296 /\ u <= 56319
                            /\ lo >= 56320 /\ lo <= 57343
                    THEN RefStringBody(d, i + 12,
                             Append(acc, 65536 + (u - 55296) * 1024
                                         + (lo - 56320)))
                    ELSE RefStringBody(d, i + 6, Append(acc, u))
            ELSE IF e # EOF /\ SimpleEscape(e) >= 0
            THEN RefStringBody(d, i + 2, Append(acc, SimpleEscape(e)))
            ELSE RefFail
    ELSE LET ch == Utf8Char(d, i)
         IN IF ch.len = 0 THEN RefFail
            ELSE RefStringBody(d, i + ch.len, Append(acc, ch.cp))

\* the number that starts at d[i]
RefNumber(d, i) ==
    LET neg == At(d, i) = 45
        i0 == IF neg THEN i + 1 ELSE i
        i1 == RefDigitsEnd(d, i0)
        int_ok == i1 > i0 /\ (At(d, i0) = 48 => i1 = i0 + 1)
        has_frac == At(d, i1) = 46
        f0 == i1 + 1
        f1 == IF has_frac THEN RefDigitsEnd(d, f0) ELSE i1
        frac_ok == has_frac => f1 > f0
        has_exp == At(d, f1) \in {101, 69}
        esign == At(d, f1 + 1)
        e0 == IF esign \in {43, 45} THEN f1 + 2 ELSE f1 + 1
        e1 == IF has_exp THEN RefDigitsEnd(d, e0) ELSE f1
        exp_ok == has_exp => e1 > e0
        int_digits == SubSeq(d, i0, i1 - 1)
        frac_digits == IF has_frac THEN SubSeq(d, f0, f1 - 1) ELSE << >>
        exp_value == IF has_exp
                     THEN (IF esign = 45 THEN -1 ELSE 1)
                          * DigitsValue(SubSeq(d, e0, e1 - 1), 0)
                     ELSE 0
        mant == DigitsValue(int_digits \o frac_digits, 0)
        signed == IF neg THEN 0 - mant ELSE mant
    IN IF ~(int_ok /\ frac_ok /\ exp_ok) THEN RefFail
       ELSE IF has_frac \/ has_exp
       THEN RefGot(e1, Normal(signed, exp_value - Len(frac_digits)))
       ELSE RefGot(e1, PyInt(signed))

RefLiteral(d, i, word, val) ==
    IF i + Len(word) - 1 <= Len(d) /\ SubSeq(d, i, i + Len(word) - 1) = word
    THEN RefGot(i + Len(word), val) ELSE RefFail

RECURSIVE RefValue(_, _), RefElements(_, _, _), RefMembers(_, _, _)

\* the value that starts at d[i]
RefValue(d, i) ==
    LET c == At(d, i) IN
    IF c = 91
    THEN IF At(d, RefSkipWs(d, i + 1)) = 93
         THEN RefGot(RefSkipWs(d, i + 1) + 1, PyList(<< >>))
         ELSE RefElements(d, i + 1, << >>)
    ELSE IF c = 123
    THEN IF At(d, RefSkipWs(d, i + 1)) = 125
         THEN RefGot(RefSkipWs(d, i + 1) + 1, PyDict(EmptyDict))
         ELSE RefMembers(d, i + 1, EmptyDict)
    ELSE IF c = 34 THEN RefStringBody(d, i + 1, << >>)
    ELSE IF c = 45 \/ isdigit(c) THEN RefNumber(d, i)
    ELSE IF c = 110 THEN RefLiteral(d, i, <<110, 117, 108, 108>>, PyNone)
    ELSE IF c = 116 THEN RefLiteral(d, i, <<116, 114, 117, 101>>, PyTrue)
    ELSE IF c = 102
    THEN RefLiteral(d, i, <<102, 97, 108, 115, 101>>, PyFalse)
    ELSE RefFail

\* the elements of an array from d[i] on, up to its closing bracket
RefElements(d, i, acc) ==
    LET v == RefValue(d, RefSkipWs(d, i))
        j == RefSkipWs(d, v.pos)
    IN IF ~v.ok THEN RefFail
       ELSE IF At(d, j) = 44 THEN RefElements(d, j + 1, Append(acc, v.val))
       ELSE IF At(d, j) = 93 THEN RefGot(j + 1, PyList(Append(acc, v.val)))
       ELSE RefFail

\* the members of an object from d[i] on, up to its closing brace
RefMembers(d, i, acc) ==
    LET k0 == RefSkipWs(d, i)
        k == IF At(d, k0) = 34 THEN RefStringBody(d, k0 + 1, << >>)
             ELSE RefFail
        c == RefSkipWs(d, k.pos)
        v == RefValue(d, RefSkipWs(d, c + 1))
        j == RefSkipWs(d, v.pos)
    IN IF ~k.ok \/ At(d, c) # 58 THEN RefFail
       ELSE IF ~v.ok THEN RefFail
       ELSE IF At(d, j) = 44
       THEN RefMembers(d, j + 1, (k.val :> v.val) @@ acc)
       ELSE IF At(d, j) = 125
       THEN RefGot(j + 1, PyDict((k.val :> v.val) @@ acc))
       ELSE RefFail

\* the document d as the reference reader reads it
RefRead(d) ==
    LET v == RefValue(d, RefSkipWs(d, 1))
    IN IF v.ok /\ RefSkipWs(d, v.pos) > Len(d) THEN v ELSE RefFail

WellFormed(d) == RefRead(d).ok

-----------------------------------------------------------------------------
(* Properties of the parser *)

Last(s) == s[Len(s)]

\* the indices of the events with one of the given tags
EventsIn(evs, tags) == {i \in 1..Len(evs) : evs[i].event \in tags}

\* {"a": 0}
ObjA0 == <<123, 34, 97, 34, 58, 32, 48, 125>>

\* C3: the parser emits exactly one KV_SEP event for every ':' between an
\* OBJECT_KEY event and the value of that member: the event after an
\* OBJECT_KEY is a KV_SEP at a ':' byte, a KV_SEP comes only after an
\* OBJECT_KEY and what follows it is the member's value; and {"a": 0} yields
\* OBJECT_OPEN, OBJECT_KEY(a), KV_SEP, OBJECT_VALUE_NUMBER(0), OBJECT_CLOSE.
C3_KvSepEvent ==
    /\ \A i \in 1..Len(events) :
         /\ (events[i].event = "OBJECT_KEY" /\ i < Len(events))
              => /\ events[i + 1].event = "KV_SEP"
                 /\ Doc[events[i + 1].pos] = KV_SEP
         /\ events[i].event = "KV_SEP"
              => /\ i > 1 /\ events[i - 1].event = "OBJECT_KEY"
                 /\ ~events[i].gen
                 /\ i < Len(events)
                      => events[i + 1].event \in
                           ObjectValueEvents \cup {"ARRAY_OPEN", "OBJECT_OPEN"}
    /\ (Doc = ObjA0 /\ pc = "done")
         => Collected(events) =
              << <<"OBJECT_OPEN">>, <<"OBJECT_KEY", <<97>> >>, <<"KV_SEP">>,
                 <<"OBJECT_VALUE_NUMBER", <<48>> >>, <<"OBJECT_CLOSE">> >>

\* {"a": 0} has been parsed to its end, its ':' included
C3_Witness ==
    /\ pc = "done" /\ Doc = ObjA0
    /\ EventsIn(events, {"KV_SEP"}) # {}

\* C4, as the specification states it: matching ':' emits no event, and
\* {"a": 0} produces exactly four events.
C4_ColonEmitsNoEvent ==
    /\ EventsIn(events, {"KV_SEP"}) = {}
    /\ (Doc = ObjA0 /\ pc = "done") => Len(events) = 4

\* the offsets at which next_event() matched a ':'
MatchedColons ==
    {j \in token_gaps : /\ j <= Len(Doc) /\ Doc[j] = KV_SEP
                        /\ ~(pc = "error" /\ err.idx = j)}

\* C4, amended: every ':' that next_event() matches emits one KV_SEP event,
\* which has no payload, and {"a": 0} produces exactly five events, the
\* third of which is KV_SEP.
C4_ColonEmitsKvSep ==
    /\ Cardinality(EventsIn(events, {"KV_SEP"})) = Cardinality(MatchedColons)
    /\ {events[i].pos : i \in EventsIn(events, {"KV_SEP"})} = MatchedColons
    /\ \A i \in EventsIn(events, {"KV_SEP"}) : ~events[i].gen
    /\ (Doc = ObjA0 /\ pc = "done")
         => Len(events) = 5 /\ events[3].event = "KV_SEP"

\* a ':' has just been matched, and parse() has yielded for it
C4_Witness ==
    /\ pc = "yield" /\ events # << >>
    /\ Last(events).event = "KV_SEP"
    /\ Last(events).pos \in MatchedColons


TagsAndPositions(evs) ==
    [i \in 1..Len(evs) |-> <<evs[i].event, evs[i].pos>>]

IsPrefix(s, t) == Len(s) <= Len(t) /\ SubSeq(t, 1, Len(s)) = s

\* C7: whatever part of each payload the consumer reads before it asks for
\* the next event, the tags of the events and the stream position at each
\* event are those of the consumer that reads every payload to its end, and
\* the parse ends the same way.
C7_DrainBeforeNextEvent ==
    LET r == Run(Doc) IN
    /\ IsPrefix(TagsAndPositions(events), TagsAndPositions(r.events))
    /\ Terminated => /\ Len(events) = Len(r.events)
                     /\ pc = r.pc
                     /\ err = r.err

\* parse() is draining a payload of which the consumer has read a part, and
\* has discarded at least one byte of it
C7_Witness ==
    /\ pc = "drain"
    /\ nread > 0
    /\ Len(Last(events).value) > nread

\* C8: a byte 0x00..0x1F read inside a string (a value or an object key)
\* raises UnexpectedCharacter with that byte and its offset in the input,
\* whether the consumer or the drain of parse() runs the generator; the byte
\* 0x20 is appended to the payload.
C8_ControlCharInString ==
    [][(pc \in {"value_gen", "drain"} /\ gen = "string" /\ data' # data)
         => LET c == Last(data') IN
            /\ (c >= 0 /\ c <= 31)
                 => /\ pc' = "error"
                    /\ err' = UnexpectedCharacter(c, Len(data'),
                                                  M_NOT_CONTROL_CHAR)
                    /\ events' = events
            /\ c = 32
                 => /\ pc' # "error"
                    /\ Last(events').value = Append(Last(events).value, 32)
      ]_vars

\* the drain of parse() has met the byte 0x1F in the key of an object, after
\* it had discarded other bytes of the key
C8_Witness ==
    /\ pc = "error"
    /\ err.type = "UnexpectedCharacter"
    /\ err.matcher = M_NOT_CONTROL_CHAR
    /\ err.char = 31
    /\ Last(events).event = "OBJECT_KEY"
    /\ nread < Len(Last(events).value)


\* the generator of event i has run to its end
PayloadComplete(i) == i < Len(events) \/ ~GenActive(gen)

\* an optional '-', one or more digits, and optionally '.' and one or more
\* digits
IsNumberLexeme(s) ==
    LET body == IF s # << >> /\ s[1] = 45 THEN Tail(s) ELSE s
        dot == IndexOf(body, 46, 1)
        int_part == IF dot = 0 THEN body ELSE SubSeq(body, 1, dot - 1)
        frac_part == IF dot = 0 THEN << >>
                     ELSE SubSeq(body, dot + 1, Len(body))
    IN /\ int_part # << >> /\ Digits(int_part) = int_part
       /\ dot # 0 => frac_part # << >> /\ Digits(frac_part) = frac_part

\* 1e10
Exp1e10 == <<49, 101, 49, 48>>

\* -3.14.-1-5
MultiNumeric == <<45, 51, 46, 49, 52, 46, 45, 49, 45, 53>>

\* C9: the payload of a number event is an optional '-', one or more
\* digits, and optionally '.' followed by one or more digits; every other
\* input raises UnexpectedCharacter: a lone '-' is rejected, 1e10 at its
\* 'e', and -3.14.-1-5 is rejected.
C9_NumberGrammar ==
    /\ \A i \in EventsIn(events, NumberEvents) :
         PayloadComplete(i) => IsNumberLexeme(events[i].value)
    /\ (Terminated /\ Doc = <<45>>)
         => pc = "error" /\ err.type = "UnexpectedCharacter"
    /\ (Terminated /\ Doc = Exp1e10)
         => /\ pc = "error" /\ err.type = "UnexpectedCharacter"
            /\ err.char = 101 /\ err.idx = 2
    /\ (Terminated /\ Doc = MultiNumeric)
         => pc = "error" /\ err.type = "UnexpectedCharacter"

\* the number of backslashes s ends with
RECURSIVE TrailingBackslashes(_)
TrailingBackslashes(s) ==
    IF s = << >> \/ Last(s) # BACKSLASH THEN 0
    ELSE 1 + TrailingBackslashes(SubSeq(s, 1, Len(s) - 1))

\* {"a_\"good\"_key": 0}
GoodKeyDoc ==
    <<123, 34, 97, 95, 92, 34, 103, 111, 111, 100, 92, 34, 95, 107, 101, 121,
      34, 58, 32, 48, 125>>

\* C10: the payload of a string is the bytes of the input after its opening
\* quote up to the terminating '"', a '"' that a backslash escapes does not
\* terminate the string, and a key that contains \" parses as one string
\* without error.
C10_EscapedQuoteDoesNotTerminate ==
    /\ \A i \in EventsIn(events, StringEvents) :
         PayloadComplete(i)
           => LET e == events[i] IN
              /\ e.value = SubSeq(Doc, e.pos + 1, e.pos + Len(e.value))
              /\ Doc[e.pos + Len(e.value) + 1] = STRING_TERMINATOR
              /\ TrailingBackslashes(e.value) % 2 = 0
    /\ (Terminated /\ Doc = GoodKeyDoc)
         => /\ pc = "done"
            /\ Collected(events)[2] = <<"OBJECT_KEY", SubSeq(GoodKeyDoc, 3, 16)>>

\* C1: for every well-formed JSON document, load() returns the value a
\* reference JSON reader returns: an int for a number without a decimal
\* point, a float for one with it.
C1_LoadMatchesReference ==
    (Terminated /\ WellFormed(Doc))
      => LET r == Load(Doc) IN
         /\ r.raised = ""
         /\ r.val = RefRead(Doc).val


\* d without its byte at offset j, and s with x put in at index k
Delete(d, j) == SubSeq(d, 1, j - 1) \o SubSeq(d, j + 1, Len(d))
InsertAt(s, k, x) == SubSeq(s, 1, k - 1) \o <<x>> \o SubSeq(s, k, Len(s))

CloseEvents == {"ARRAY_CLOSE", "OBJECT_CLOSE"}

\* the events an item of an array or object ends with
ItemEndEvents == ArrayValueEvents \cup ObjectValueEvents \cup CloseEvents

\* what load() does on document d: the exception it raises or its value
LoadResult(d) == LET l == Load(d) IN <<l.raised, l.val>>

\* the events of r that close a container at offset j, right after an item
ClosesAfterItem(r, j) ==
    {k \in 2..Len(r.events) : /\ r.events[k].pos = j
                              /\ r.events[k].event \in CloseEvents
                              /\ r.events[k - 1].event \in ItemEndEvents}

\* C5: a document that has one ',' put in immediately before a ']' or '}'
\* that follows an item parses to the events of the document without it and
\* one ARRAY_ITEM_SEP / OBJECT_ITEM_SEP event more, before that close; the
\* parse ends the same way and load() returns the same value.
C5_TrailingComma ==
    Terminated =>
      \A j \in 1..Len(Doc) :
        Doc[j] = ITEM_SEP =>
          LET d0 == Delete(Doc, j)
              r == Run(d0)
          IN \A k \in ClosesAfterItem(r, j) :
               LET sep == IF r.events[k].event = "ARRAY_CLOSE"
                          THEN "ARRAY_ITEM_SEP" ELSE "OBJECT_ITEM_SEP"
               IN /\ Collected(events) =
                       InsertAt(Collected(r.events), k, <<sep>>)
                  /\ pc = r.pc
                  /\ err.type = r.err.type /\ err.char = r.err.char
                  /\ LoadResult(Doc) = LoadResult(d0)

\* a document with a ',' immediately before the '}' that follows the last
\* member of an object has been parsed to its end
C5_Witness ==
    /\ pc = "done"
    /\ \E j \in 1..Len(Doc) :
         /\ Doc[j] = ITEM_SEP
         /\ \E k \in ClosesAfterItem(Run(Delete(Doc, j)), j) :
              events[k].event = "OBJECT_ITEM_SEP"

\* C6: a document that has one byte of JSON whitespace (space, tab, LF, CR)
\* put in between two tokens, before the first or after the last, parses to
\* the same events with the same payload bytes, and the parse ends the same
\* way.  By induction the same holds for any amount of whitespace.
C6_WhitespaceBetweenTokens ==
    Terminated =>
      \A j \in 1..Len(Doc) :
        Doc[j] \in JsonWhitespace =>
          LET r == Run(Delete(Doc, j))
          IN j \in r.token_gaps
               => /\ Collected(events) = Collected(r.events)
                  /\ pc = r.pc
                  /\ err.type = r.err.type /\ err.char = r.err.char
                  /\ err.matcher = r.err.matcher

\* a document with a tab between two of its tokens has been parsed to its end
C6_Witness ==
    /\ pc = "done"
    /\ \E j \in 2..(Len(Doc) - 1) :
         /\ Doc[j] = 9
         /\ j \in Run(Delete(Doc, j)).token_gaps
         /\ \E i \in 1..(Len(events) - 1) :
              events[i].pos < j /\ j < events[i + 1].pos

ScalarEvents == TopLevelEvents \cup ArrayValueEvents \cup ObjectValueEvents

\* the containers that are open after the first n of the events evs
RECURSIVE OpenContainers(_, _)
OpenContainers(evs, n) ==
    IF n = 0 THEN << >>
    ELSE LET s == OpenContainers(evs, n - 1)
             e == evs[n].event
         IN IF e = "ARRAY_OPEN" THEN Append(s, "ARRAY")
            ELSE IF e = "OBJECT_OPEN" THEN Append(s, "OBJECT")
            ELSE IF e \in CloseEvents /\ s # << >> THEN Pop(s)
            ELSE s

\* the scalars of the well-formed document d from offset i on, in order, as
\* the reference grammar delimits them: the tag for where the scalar stands,
\* and the lexeme of a string (without its quotes) or number
RECURSIVE RefScalars(_, _, _, _)
RefScalars(d, i, stack, acc) ==
    LET j == RefSkipWs(d, i)
        c == At(d, j)
        tags == IF stack = << >> THEN TopLevelEvent
                ELSE IF Last(stack) = "ARRAY" THEN ArrayValueEvent
                ELSE ObjectValueEvent
    IN IF c = EOF THEN acc
       ELSE IF c = 91 THEN RefScalars(d, j + 1, Append(stack, "ARRAY"), acc)
       ELSE IF c = 123 THEN RefScalars(d, j + 1, Append(stack, "OBJECT"), acc)
       ELSE IF c \in {93, 125} THEN RefScalars(d, j + 1, Pop(stack), acc)
       ELSE IF c \in {44, 58} THEN RefScalars(d, j + 1, stack, acc)
       ELSE IF c = 34
       THEN LET e == RefStringBody(d, j + 1, << >>).pos
                is_key == /\ stack # << >> /\ Last(stack) = "OBJECT"
                          /\ At(d, RefSkipWs(d, e)) = 58
            IN RefScalars(d, e, stack,
                          IF is_key THEN acc
                          ELSE Append(acc, <<tags.STRING,
                                             SubSeq(d, j + 1, e - 2)>>))
       ELSE IF c = 45 \/ isdigit(c)
       THEN LET e == RefNumber(d, j).pos
            IN RefScalars(d, e, stack,
                          Append(acc, <<tags.NUMBER, SubSeq(d, j, e - 1)>>))
       ELSE IF c = 110
       THEN RefScalars(d, j + 4, stack, Append(acc, <<tags.NULL>>))
       ELSE IF c = 116
       THEN RefScalars(d, j + 4, stack, Append(acc, <<tags.TRUE>>))
       ELSE RefScalars(d, j + 5, stack, Append(acc, <<tags.FALSE>>))

IsScalarItem(x) == x[1] \in ScalarEvents

UnicodeEscapeDoc ==
    <<34, 49, 32, 92, 117, 48, 48, 51, 50, 32, 92, 117, 48, 48, 51, 51, 32,
      52, 32, 92, 117, 48, 48, 51, 53, 34>>

\* every backslash of d starts a \u escape
UnicodeEscapesOnly(d) ==
    \A i \in 1..Len(d) : d[i] = BACKSLASH => (i < Len(d) /\ d[i + 1] = 117)

\* C11: a \uXXXX escape inside a string is decoded in the event payload: a
\* well-formed document that is one string literal whose only escapes are
\* \uXXXX parses to one STRING event whose payload is the text of the
\* string, and "1 2 3 4 5" to the payload 1 2 3 4 5.
C11_UnicodeEscapeDecoded ==
    /\ (Terminated /\ WellFormed(Doc) /\ RefRead(Doc).val[1] = "str"
          /\ UnicodeEscapesOnly(Doc))
         => LET r == Run(Doc) IN
            /\ r.pc = "done"
            /\ Len(r.events) = 1
            /\ r.events[1].event = "STRING"
            /\ PyStr(Utf8Decode(r.events[1].value, 1, << >>).cps)
                 = RefRead(Doc).val
    /\ (Terminated /\ Doc = UnicodeEscapeDoc)
         => Collected(Run(Doc).events)
              = << <<"STRING", <<49, 32, 50, 32, 51, 32, 52, 32, 53>> >> >>


\* some part of the element m of the expect stack accepts the byte c
Accepted(m, c) == \E i \in 1..Len(m) : Matches(m[i], c)

\* the 1-based index in the source of the byte c that next_char() returned
\* last: the last byte read, or one past the input for end of input
OffendingIndex(c, read) == IF c = EOF THEN Len(read) + 1 ELSE Len(read)

\* C16: whenever the next byte that next_nonspace_char() returns is accepted
\* by neither the optional nor the mandatory part of the matcher popped from
\* the expect stack, UnexpectedCharacter is raised, and in no other case;
\* the position it reports is the 1-based index in the source of that byte
\* (input length + 1 for end of input), also when the byte had been pushed
\* back and is replayed; and every UnexpectedCharacter, whoever raises it,
\* reports the byte read last and its index.
C16_UnexpectedCharacterPosition ==
    /\ [](err.type = "UnexpectedCharacter"
            => /\ err.idx = OffendingIndex(err.char, data)
               /\ err.char # EOF => data[err.idx] = err.char
               /\ err.char = EOF => rest = << >>)
    /\ [][(pc = "expect" /\ pc' # pc)
            => LET c == IF stuffed_char # None THEN stuffed_char
                        ELSE IF data' # data THEN Last(data') ELSE EOF
               IN ~SkipsSpace(c)
                    => IF Accepted(matcher, c)
                       THEN err'.type # "UnexpectedCharacter"
                       ELSE /\ pc' = "error"
                            /\ err' = UnexpectedCharacter(
                                          c, OffendingIndex(c, data'),
                                          Last(matcher))
                            /\ events' = events
         ]_vars

\* the byte 'l' that ended the number 1 was pushed back, replayed to the EOF
\* matcher and rejected at index 2
C16_Witness ==
    /\ pc = "error"
    /\ err = UnexpectedCharacter(108, 2, M_EOF)
    /\ data = <<49, 108>>
    /\ Len(events) = 1
    /\ events[1].event = "NUMBER"


-----------------------------------------------------------------------------
(* The streaming UTF-8 decoder of src/utf8_decoder.py.  A character is the  *)
(* code point chr() is given.  One step of the model is one activation of   *)
(* __next__: the call the consumer makes, or the call error() makes under   *)
(* the IGNORE policy, which nests one activation in another.                *)

REPLACEMENT_CHAR == 65533
STRICT == 0
REPLACE == 1
IGNORE == 2
MAX_CODEPOINT == 1114111

\* the most frames Python's call stack may hold (sys.getrecursionlimit(),
\* which the program never changes)
RecursionLimit == 1000

\* longest input of the decoder that is drawn from U8Alphabet
MaxBytes == 3

RECURSIVE BitAnd(_, _)
BitAnd(a, b) ==
    IF a = 0 \/ b = 0 THEN 0
    ELSE (a % 2) * (b % 2) + 2 * BitAnd(a \div 2, b \div 2)

RECURSIVE BitOr(_, _)
BitOr(a, b) ==
    IF a = 0 THEN b
    ELSE IF b = 0 THEN a
    ELSE (IF a % 2 = 1 \/ b % 2 = 1 THEN 1 ELSE 0)
         + 2 * BitOr(a \div 2, b \div 2)

ShiftLeft(a, k) == a * 2 ^ k

\* the decoder object as a record
D ==
    [stream |-> stream, byte_num |-> byte_num, first_read |-> first_read,
     errors |-> errors, num_pending_replacement |-> num_pending_replacement,
     disallow_nonchars |-> disallow_nonchars, rejected |-> rejected,
     returned |-> Len(output)]

SetD(d) ==
    /\ stream' = d.stream
    /\ byte_num' = d.byte_num
    /\ first_read' = d.first_read
    /\ errors' = d.errors
    /\ num_pending_replacement' = d.num_pending_replacement
    /\ disallow_nonchars' = d.disallow_nonchars
    /\ rejected' = d.rejected

\* the frames on Python's call stack below an activation of __next__ that
\* is nested n deep: the consumer's, and a __next__ and an error() per level
Frames(n) == 1 + 2 * n

\* what a call leaves: a value returned, an exception, or (again) the call
\* next(self) that error() makes
Returned(d, c) == [d |-> d, val |-> c, raised |-> "", again |-> FALSE]
Raised(d, e) == [d |-> d, val |-> None, raised |-> e, again |-> FALSE]
Recurse(d) == [d |-> d, val |-> None, raised |-> "", again |-> TRUE]

\* read_one(), called with `frames` frames below it
read_one(d, frames) ==
    LET e == [d EXCEPT !.stream = IF @ = << >> THEN @ ELSE Tail(@),
                       !.byte_num = @ + 1,
                       !.first_read = FALSE]
    IN IF frames + 1 > RecursionLimit THEN Raised(d, "RecursionError")
       ELSE IF d.stream = << >> THEN Raised(e, "StopIteration")
       ELSE Returned(e, Head(d.stream))

\* error() notes its call: the bytes it is told were consumed, the bytes the
\* activation of __next__ that began with the decoder d0 has taken from the
\* stream, the number of the first of them, why the sequence is rejected,
\* and the place in the output of what the call returns
Rejected(d, d0, num_consumed_bytes, why) ==
    [d EXCEPT !.rejected =
         Append(@, [counted |-> num_consumed_bytes,
                    read |-> Len(d0.stream) - Len(d.stream),
                    first |-> d0.byte_num + 1,
                    why |-> why,
                    at |-> d.returned + 1])]

\* error() that queues a replacement character for the one it returns too
error_QueuesAll(d, d0, num_consumed_bytes, why, frames) ==
    LET e == Rejected(d, d0, num_consumed_bytes, why)
    IN IF d.errors = STRICT THEN Raised(e, "InvalidUTF8Encoding")
       ELSE IF d.errors = REPLACE
       THEN Returned([e EXCEPT !.num_pending_replacement =
                                   @ + num_consumed_bytes],
                     REPLACEMENT_CHAR)
       ELSE Recurse(e)


\* error() that queues no further replacement character
error_OnePerSequence(d, d0, num_consumed_bytes, why, frames) ==
    LET e == Rejected(d, d0, num_consumed_bytes, why)
    IN IF d.errors = STRICT THEN Raised(e, "InvalidUTF8Encoding")
       ELSE IF d.errors = REPLACE THEN Returned(e, REPLACEMENT_CHAR)
       ELSE Recurse(e)

\* error(num_consumed_bytes), called with `frames` frames below it
error(d, d0, num_consumed_bytes, why, frames) ==
    LET e == Rejected(d, d0, num_consumed_bytes, why)
    IN IF frames + 1 > RecursionLimit THEN Raised(d, "RecursionError")
       ELSE IF d.errors = STRICT THEN Raised(e, "InvalidUTF8Encoding")
       ELSE IF d.errors = REPLACE
       THEN Returned([e EXCEPT !.num_pending_replacement =
                                   @ + num_consumed_bytes - 1],
                     REPLACEMENT_CHAR)
       ELSE Recurse(e)

\* __next__: the number of bytes the leading byte announces, 0 if none
NumBytes(leading_byte) ==
    IF BitAnd(leading_byte, 224) = 192 THEN 2
    ELSE IF BitAnd(leading_byte, 240) = 224 THEN 3
    ELSE IF BitAnd(leading_byte, 248) = 240 THEN 4
    ELSE IF BitAnd(leading_byte, 252) = 248 THEN 5
    ELSE IF BitAnd(leading_byte, 254) = 252 THEN 6
    ELSE 0

\* __next__: the code point initialised with the bits of the leading byte
LeadingBits(leading_byte) ==
    CASE NumBytes(leading_byte) = 2 -> ShiftLeft(BitAnd(leading_byte, 31), 6)
      [] NumBytes(leading_byte) = 3 -> ShiftLeft(BitAnd(leading_byte, 15), 12)
      [] NumBytes(leading_byte) = 4 -> ShiftLeft(BitAnd(leading_byte, 7), 18)
      [] NumBytes(leading_byte) = 5 -> ShiftLeft(BitAnd(leading_byte, 3), 24)
      [] NumBytes(leading_byte) = 6 -> ShiftLeft(BitAnd(leading_byte, 1), 30)
      [] OTHER -> 0

\* __next__: the loop that reads the remaining bytes.  bad: the argument of
\* the call of error() the loop ends with, 0 if it ends without one
RECURSIVE ReadRemaining(_, _, _, _, _)
ReadRemaining(d, num_bytes, bytes_remaining, codepoint, frames) ==
    LET r == read_one(d, frames)
        byte == r.val
        cp == BitOr(codepoint,
                    ShiftLeft(BitAnd(byte, 63), (bytes_remaining - 1) * 6))
        out(e, bad, why, exc) ==
            [d |-> e, codepoint |-> codepoint, bad |-> bad, why |-> why,
             raised |-> exc]
    IN IF bytes_remaining = 0 THEN out(d, 0, "", "")
       ELSE IF r.raised = "RecursionError" THEN out(r.d, 0, "", r.raised)
       ELSE IF r.raised = "StopIteration"
       THEN out(r.d, num_bytes - bytes_remaining, "exhausted", "")
       ELSE IF BitAnd(byte, 192) # 128
       THEN out(r.d, num_bytes - bytes_remaining + 1, "not_continuation", "")
       ELSE IF num_bytes >= 4 /\ cp > MAX_CODEPOINT
       THEN out(r.d, num_bytes - bytes_remaining + 1, "above_max", "")
       ELSE ReadRemaining(r.d, num_bytes, bytes_remaining - 1, cp, frames)

\* __next__: the test "Maybe disallow noncharacters"
NonChar(codepoint) ==
    codepoint >= 65534 \/ (64976 <= codepoint /\ codepoint <= 65007)

\* __next__ without the test for overlong encodings
Overlong_Never(num_bytes, codepoint) == FALSE

\* __next__: the test "Disallow overlong encodings"
Overlong(num_bytes, codepoint) ==
    \/ num_bytes = 2 /\ codepoint < 128
    \/ num_bytes = 3 /\ codepoint < 2048
    \/ num_bytes = 4 /\ codepoint < 65536
    \/ num_bytes = 5 /\ codepoint < 2097152
    \/ num_bytes = 6 /\ codepoint < 67108864

\* __next__ without the check of the leading byte 0xed
IsSurrogateLead_Never(leading_byte) == FALSE

\* __next__: "Check whether the leading byte is 0xed"
IsSurrogateLead(leading_byte) == leading_byte = 237

\* one activation of __next__, with `frames` frames below it
next(d, frames) ==
    LET r == read_one(d, frames + 1)
        leading_byte == r.val
        num_bytes == NumBytes(leading_byte)
        m == ReadRemaining(r.d, num_bytes, num_bytes - 1,
                           LeadingBits(leading_byte), frames + 1)
        codepoint == m.codepoint
    IN IF frames + 1 > RecursionLimit THEN Raised(d, "RecursionError")
       ELSE IF d.num_pending_replacement > 0
       THEN Returned([d EXCEPT !.num_pending_replacement = @ - 1],
                     REPLACEMENT_CHAR)
       ELSE IF r.raised # "" THEN Raised(r.d, r.raised)
       ELSE IF BitAnd(leading_byte, 128) = 0 THEN Returned(r.d, leading_byte)
       ELSE IF num_bytes = 0
       THEN error(r.d, d, 1,
                  IF BitAnd(leading_byte, 192) = 128 THEN "continuation"
                  ELSE "leading", frames + 1)
       ELSE IF IsSurrogateLead(leading_byte)
       THEN error(r.d, d, 1, "surrogate_lead", frames + 1)
       ELSE IF m.raised # "" THEN Raised(m.d, m.raised)
       ELSE IF m.bad > 0 THEN error(m.d, d, m.bad, m.why, frames + 1)
       ELSE IF Overlong(num_bytes, codepoint)
       THEN error(m.d, d, num_bytes, "overlong", frames + 1)
       ELSE IF \/ leading_byte = 224 /\ codepoint < 2048
               \/ leading_byte = 240 /\ codepoint < 65536
       THEN error(m.d, d, num_bytes, "overlong", frames + 1)
       ELSE IF d.disallow_nonchars /\ NonChar(codepoint)
       THEN error(m.d, d, 1, "nonchar", frames + 1)
       ELSE IF codepoint > MAX_CODEPOINT THEN Raised(m.d, "ValueError")
       ELSE Returned(m.d, codepoint)


\* what the consumer of the iteration sees of a call that has ended
Leave(r) ==
    IF r.again
    THEN /\ depth' = depth + 1
         /\ UNCHANGED <<output, raised>>
    ELSE /\ depth' = 0
         /\ raised' = r.raised
         /\ output' = IF r.val # None THEN Append(output, r.val) ELSE output

\* the consumer calls next() on the decoder
DecoderNext ==
    /\ raised = ""
    /\ depth = 0
    /\ LET r == next(D, Frames(0)) IN SetD(r.d) /\ Leave(r)
    /\ UNCHANGED <<input, parser_vars, paths_vars>>

\* under IGNORE, error() calls next(self)
DecoderNested ==
    /\ raised = ""
    /\ depth > 0
    /\ LET r == next(D, Frames(depth)) IN SetD(r.d) /\ Leave(r)
    /\ UNCHANGED <<input, parser_vars, paths_vars>>

\* all sequences over S of length at most n
BoundedSeq(S, n) == UNION {[1..k -> S] : k \in 0..n}

\* the bytes of the inputs whose content is left open: an ASCII byte, the
\* ends of the ranges of continuation bytes, and leading bytes
U8Alphabet == {65, 128, 143, 144, 159, 160, 191, 194, 224, 237, 239, 240, 244}

\* inputs at the limits the decoder tests for
DecoderDocs ==
    {
      <<206, 186, 207, 140, 207, 131, 206, 188, 206, 181>>,  \* Greek text
      <<65, 226, 130, 172, 66>>,     \* A, U+20AC, B
      <<127>>, <<192>>, <<193, 191>>, <<223, 191>>,
      <<245>>, <<247>>, <<248>>, <<252>>, <<254>>, <<255>>,
      <<224, 159, 191>>,             \* overlong U+07FF
      <<225, 128, 128>>, <<236, 191, 191>>, <<238, 128, 128>>,
      <<237, 159, 191>>,             \* U+D7FF
      <<239, 191, 189>>,             \* U+FFFD
      <<239, 191, 190>>,             \* U+FFFE
      <<239, 183, 143>>,             \* U+FDCF
      <<239, 183, 144>>,             \* U+FDD0
      <<239, 183, 175>>,             \* U+FDEF
      <<239, 183, 176>>,             \* U+FDF0
      <<240, 144, 128, 128>>,        \* U+10000
      <<240, 159, 152, 128>>,        \* U+1F600
      <<240, 159, 191, 190>>,        \* U+1FFFE
      <<244, 143, 191, 189>>,        \* U+10FFFD
      <<244, 143, 191, 191>>,        \* U+10FFFF
      <<244, 144, 128, 128>>,        \* 0x110000
      <<245, 128, 128, 128>>, <<247, 191, 191, 191>>,
      <<240, 128, 128, 128>>,        \* overlong U+0000
      <<240, 143, 191, 191>>,        \* overlong U+FFFF
      <<240, 159, 152>>, <<240, 159, 152, 65>>, <<240, 159, 65, 65>>,
      <<248, 128, 128, 128, 128>>,   \* 5 bytes, overlong
      <<248, 135, 191, 191, 191>>,   \* 5 bytes, overlong 0x1FFFFF
      <<248, 136, 128, 128, 128>>,   \* 5 bytes, 0x200000
      <<251, 191, 191, 191, 191>>,
      <<252, 128, 128, 128, 128, 128>>,   \* 6 bytes, overlong
      <<252, 131, 191, 191, 191, 191>>,   \* 6 bytes, overlong 0x3FFFFFF
      <<252, 132, 128, 128, 128, 128>>,   \* 6 bytes, 0x4000000
      <<253, 191, 191, 191, 191, 191>>,
      <<226, 130, 65, 66>>, <<65, 194, 66, 67>>,
      [i \in 1..RecursionLimit |-> 128]   \* continuation bytes only
    }

DecoderInputs == BoundedSeq(U8Alphabet, MaxBytes) \cup DecoderDocs

\* UTF8Decoder(stream, errors, disallow_nonchars)
DecoderInit ==
    /\ data = << >>
    /\ rest = << >>
    /\ open = FALSE
    /\ FreshParser
    /\ NoPaths
    /\ input \in DecoderInputs
    /\ stream = input
    /\ byte_num = 0
    /\ first_read = TRUE
    /\ errors \in {STRICT, REPLACE, IGNORE}
    /\ num_pending_replacement = 0
    /\ disallow_nonchars \in BOOLEAN
    /\ output = << >>
    /\ rejected = << >>
    /\ depth = 0
    /\ raised = ""

DecoderStep ==
    \/ DecoderNext
    \/ DecoderNested

SpecUtf8 == DecoderInit /\ [][DecoderStep]_vars


-----------------------------------------------------------------------------
(* Well-formed UTF-8 as the Unicode Standard defines it (Table 3-7), and    *)
(* the maximal subparts of what is ill-formed (definition D93b); written    *)
(* from the standard and not from the decoder.                              *)

\* the length of the sequence the byte b0 may start, 0 if it starts none
RefLength(b0) ==
    IF b0 <= 127 THEN 1
    ELSE IF 194 <= b0 /\ b0 <= 223 THEN 2
    ELSE IF 224 <= b0 /\ b0 <= 239 THEN 3
    ELSE IF 240 <= b0 /\ b0 <= 244 THEN 4
    ELSE 0

\* the bytes that may stand in place k (1 for the second byte) after b0
RefTrail(b0, k) ==
    IF k > 1 THEN 128..191
    ELSE CASE b0 = 224 -> 160..191
           [] b0 = 237 -> 128..159
           [] b0 = 240 -> 144..191
           [] b0 = 244 -> 128..143
           [] OTHER -> 128..191

\* how many of the bytes after bytes[i] continue the sequence it starts
RECURSIVE RefTrailing(_, _, _)
RefTrailing(bytes, i, k) ==
    IF k >= RefLength(bytes[i]) \/ i + k > Len(bytes)
       \/ bytes[i + k] \notin RefTrail(bytes[i], k)
    THEN k - 1
    ELSE RefTrailing(bytes, i, k + 1)

\* the scalar value of the well-formed sequence of n bytes at bytes[i]
RefScalar(bytes, i, n) ==
    CASE n = 1 -> bytes[i]
      [] n = 2 -> (bytes[i] - 192) * 64 + (bytes[i + 1] - 128)
      [] n = 3 -> (bytes[i] - 224) * 4096 + (bytes[i + 1] - 128) * 64
                  + (bytes[i + 2] - 128)
      [] n = 4 -> (bytes[i] - 240) * 262144 + (bytes[i + 1] - 128) * 4096
                  + (bytes[i + 2] - 128) * 64 + (bytes[i + 3] - 128)

\* the input cut into well-formed sequences (ok, with their scalar value)
\* and maximal subparts of ill-formed subsequences
RECURSIVE RefUnits(_, _, _)
RefUnits(bytes, i, acc) ==
    IF i > Len(bytes) THEN acc
    ELSE LET n == RefLength(bytes[i])
             t == RefTrailing(bytes, i, 1)
         IN IF n > 0 /\ t = n - 1
            THEN RefUnits(bytes, i + n,
                          Append(acc, [ok |-> TRUE, first |-> i, len |-> n,
                                       cp |-> RefScalar(bytes, i, n)]))
            ELSE RefUnits(bytes, i + 1 + (IF n = 0 THEN 0 ELSE t),
                          Append(acc, [ok |-> FALSE, first |-> i,
                                       len |-> 1 + (IF n = 0 THEN 0 ELSE t),
                                       cp |-> REPLACEMENT_CHAR]))

\* from bytes[i] on, the input is well-formed sequences only
RECURSIVE WellFormedFrom(_, _)
WellFormedFrom(bytes, i) ==
    \/ i > Len(bytes)
    \/ /\ RefLength(bytes[i]) > 0
       /\ RefTrailing(bytes, i, 1) = RefLength(bytes[i]) - 1
       /\ WellFormedFrom(bytes, i + RefLength(bytes[i]))

WellFormedUtf8(bytes) == WellFormedFrom(bytes, 1)

\* the noncharacters of Unicode (Corrigendum 9)
IsNoncharacter(cp) ==
    \/ cp % 65536 \in {65534, 65535}
    \/ 64976 <= cp /\ cp <= 65007


-----------------------------------------------------------------------------
(* Properties of the decoder *)

\* the iteration over the decoder has ended
Finished == raised # ""

\* the input as the standard cuts it
Units == RefUnits(input, 1, << >>)

\* C17: under the STRICT policy the decoder raises InvalidUTF8Encoding for
\* every input that contains an overlong encoding of 2 to 6 bytes, a lone
\* continuation byte, a sequence cut short by the end of the input or by a
\* byte that is no continuation byte, a code point above 0x10FFFF, or the
\* leading byte 0xED: that is, for every input that is not well-formed
\* UTF-8, which each of these defects makes it, or that holds a byte 0xED.
C17_StrictRejects ==
    (/\ errors = STRICT
     /\ Finished
     /\ \/ ~WellFormedUtf8(input)
        \/ \E i \in DOMAIN input : input[i] = 237)
      => /\ raised = "InvalidUTF8Encoding"
         /\ Len(rejected) = 1

\* the overlong encoding of 6 bytes is rejected once its last byte is read
C17_Witness ==
    /\ errors = STRICT
    /\ input = <<252, 128, 128, 128, 128, 128>>
    /\ raised = "InvalidUTF8Encoding"
    /\ rejected[1].why = "overlong"
    /\ byte_num = 6

\* C18: under the STRICT policy every well-formed UTF-8 input, the
\* shortest-form encodings of scalar values U+0000 to U+D7FF and U+E000 to
\* U+10FFFF (without noncharacters when disallow_nonchars is set), is
\* decoded without error to exactly those code points, and exactly its
\* bytes are consumed.
C18_StrictAcceptsValid ==
    (/\ errors = STRICT
     /\ Finished
     /\ WellFormedUtf8(input)
     /\ disallow_nonchars => \A k \in DOMAIN Units : ~IsNoncharacter(Units[k].cp))
      => /\ raised = "StopIteration"
         /\ output = [k \in DOMAIN Units |-> Units[k].cp]
         /\ rejected = << >>

\* C19: under the REPLACE policy and under the IGNORE policy decoding any
\* input, also one cut short in the middle of a sequence, raises no error:
\* the iteration ends with StopIteration at the end of the input.
C19_ReplaceIgnoreNeverRaise ==
    (errors \in {REPLACE, IGNORE} /\ Finished)
      => raised = "StopIteration" /\ stream = << >>

\* the places in the output of the replacement characters of the call of
\* error() noted in r
ReplacementsOf(r) == {r.at + j : j \in 0..(r.counted - 1)}

ReplacementPlaces == UNION {ReplacementsOf(rejected[k]) : k \in DOMAIN rejected}

\* s[lo] + ... + s[hi]
RECURSIVE Sum(_, _, _)
Sum(s, lo, hi) ==
    IF lo > hi THEN 0
    ELSE IF lo = hi THEN s[lo]
    ELSE Sum(s, lo, (lo + hi) \div 2) + Sum(s, (lo + hi) \div 2 + 1, hi)

\* the number of bytes of the shortest encoding of a code point
EncodedLength(cp) ==
    IF cp < 128 THEN 1 ELSE IF cp < 2048 THEN 2 ELSE IF cp < 65536 THEN 3 ELSE 4

\* C20, as stated: under the REPLACE policy the output holds exactly one
\* replacement character for each maximal ill-formed subsequence of the
\* input, however many bytes it has (inputs without the byte 0xED, decoded
\* with noncharacters allowed, so that the decoder and the standard agree on
\* what is well-formed).
C20_OnePerMaximalSubpart ==
    (/\ errors = REPLACE
     /\ Finished
     /\ ~disallow_nonchars
     /\ \A i \in DOMAIN input : input[i] # 237)
      => Cardinality(ReplacementPlaces)
           = Cardinality({k \in DOMAIN Units : ~Units[k].ok})

\* C20, amended: under the REPLACE policy the output holds one replacement
\* character for each byte a rejected sequence had consumed, the byte that
\* interrupts it included, and a single one for a rejected noncharacter;
\* every other character of the output is a decoded character that accounts
\* for the bytes of its encoding.
C20_OnePerConsumedByte ==
    (errors = REPLACE /\ Finished)
      => /\ num_pending_replacement = 0
         /\ \A k \in DOMAIN rejected :
              /\ rejected[k].counted
                   = IF rejected[k].why = "nonchar" THEN 1
                     ELSE rejected[k].read
              /\ \A i \in ReplacementsOf(rejected[k]) :
                   i <= Len(output) /\ output[i] = REPLACEMENT_CHAR
         /\ Cardinality(ReplacementPlaces)
              = Sum([k \in DOMAIN rejected |-> rejected[k].counted],
                    1, Len(rejected))
         /\ Len(input)
              = Sum([k \in DOMAIN rejected |-> rejected[k].read],
                    1, Len(rejected))
                + Sum([i \in DOMAIN output |->
                         IF i \in ReplacementPlaces THEN 0
                         ELSE EncodedLength(output[i])],
                      1, Len(output))

\* a sequence of 4 bytes cut short after 3 has given 3 replacement
\* characters
C20_Witness ==
    /\ errors = REPLACE
    /\ Finished
    /\ input = <<240, 159, 152>>
    /\ output = <<REPLACEMENT_CHAR, REPLACEMENT_CHAR, REPLACEMENT_CHAR>>
    /\ Len(rejected) = 1
    /\ rejected[1].why = "exhausted"

-----------------------------------------------------------------------------
(* yield_paths(paths): the generator as a state machine, one step for each  *)
(* event it or the load() it calls takes from parse_gen.  A segment of a    *)
(* path is a Python value: a key is a str, an index an int, and the empty   *)
(* object indicator is the bytes b'.'.  The indexes of paths count from 1   *)
(* here and from 0 in the code.  yielded is the list of the pairs the       *)
(* consumer has received, each with the index that matched, the position    *)
(* of the parser when it was yielded and, for a container, the position of  *)
(* its opening byte.                                                        *)

\* path.append(PERIOD)
PeriodBytes == <<"bytes", <<PERIOD>>>>

SameSegment(a, b) == a[1] = b[1] /\ a[2] = b[2]

\* path == paths[i]
PathEq(p, q) ==
    /\ Len(p) = Len(q)
    /\ \A k \in 1..Len(p) : SameSegment(p[k], q[k])

Min(S) == CHOOSE x \in S : \A y \in S : x <= y

\* for i in unyielded_path_idxs: if path == paths[i]
Matching(pth) == {i \in unyielded_path_idxs : PathEq(pth, paths[i])}

\* isinstance(path[-1], int)
TopIsInt(pth) == pth # << >> /\ Top(pth)[1] = "int"

\* path[-1] += 1 that leaves the index as it is
Increment_Not(pth) == pth


\* path[-1] += 1
Increment(pth) == [pth EXCEPT ![Len(pth)] = PyInt(@[2] + 1)]

\* what path[-1] += 1 raises
IncrementRaises(pth) ==
    IF pth = << >> THEN "IndexError"
    ELSE IF Top(pth)[1] # "int" THEN "TypeError"
    ELSE ""

\* if len(unyielded_path_idxs) == 0: return
AbortCheck(idxs) == IF idxs = {} THEN "done" ELSE "loop"

\* next(parse_gen), in the loop of yield_paths and in load()
PathsPull == PullEvent(Fed(P, rest))

\* the parser and its stream after the calls that led to f
Feed(f) ==
    /\ Set(f.p)
    /\ data' = data \o SubSeq(rest, 1, Len(rest) - Len(f.bytes))
    /\ rest' = f.bytes
    /\ open' = open

\* load() is not running
NoLoad ==
    [idx |-> 0, opened |-> 0, started |-> FALSE,
     L |-> [root |-> PyNone, container |-> << >>, container_stack |-> << >>,
            key |-> PyNone, raised |-> ""]]

\* load(): root, container_stack, container and key before its loop
LoadRoot(event) ==
    [root |-> IF event \in {"OBJECT_OPEN", "OBJECT_KEY"}
              THEN PyDict(EmptyDict) ELSE PyList(<< >>),
     container |-> << >>, container_stack |-> << >>,
     key |-> PyNone, raised |-> ""]

\* an exception leaves the generator
PathsRaise(type) ==
    /\ paths_pc' = "raised"
    /\ paths_raised' = IF type = "StopIteration" THEN "RuntimeError" ELSE type
    /\ UNCHANGED yielded

\* yield path, value
PathsYield(i, pth, value, f, container, opened) ==
    /\ paths_pc' = "yield"
    /\ yielded' = Append(yielded,
                         [idx |-> i, path |-> pth, value |-> value,
                          char_num |-> f.p.char_num,
                          container |-> container, opened |-> opened])
    /\ UNCHANGED paths_raised

\* yield path, value hands the consumer the list object path itself and no
\* copy of it: what the k-th pair the consumer has kept holds as its path
\* is what that list holds now
KeptPath(k) == path

\* the generator goes on without a yield
PathsGoOn(next_pc) ==
    /\ paths_pc' = next_pc
    /\ UNCHANGED <<yielded, paths_raised>>

\* the loop body for OBJECT_OPEN and for ARRAY_OPEN, up to the call of load()
PathsOpen ==
    /\ paths_pc = "loop"
    /\ \E g \in {PathsPull} :
          LET event == Top(g.p.events).event
              path1 == IF TopIsInt(path) THEN Increment(path) ELSE path
              hit == Matching(path1)
          IN /\ g.p.pc = "yield"
             /\ event \in {"OBJECT_OPEN", "ARRAY_OPEN"}
             /\ Feed(g)
             /\ IF hit = {}
                THEN /\ path' = Append(path1, IF event = "OBJECT_OPEN"
                                              THEN PeriodBytes ELSE PyInt(-1))
                     /\ PathsGoOn("loop")
                     /\ UNCHANGED loading
                ELSE /\ path' = path1
                     /\ PathsGoOn("load")
                     /\ loading' = [NoLoad EXCEPT !.idx = Min(hit),
                                                  !.opened = g.p.char_num]
    /\ UNCHANGED <<paths, unyielded_path_idxs, decoder_vars>>

\* load(parse_gen) up to its loop: the first event it reads
PathsLoadFirst ==
    /\ paths_pc = "load"
    /\ ~loading.started
    /\ \E g \in {PathsPull} :
          LET event == Top(g.p.events).event
          IN IF g.p.pc = "error"
             THEN Feed(g) /\ PathsRaise(g.p.err.type) /\ UNCHANGED loading
             ELSE IF g.p.pc = "done"
             THEN Feed(g) /\ PathsRaise("StopIteration") /\ UNCHANGED loading
             ELSE IF event \in TopLevelEvents \cup ArrayValueEvents
                               \cup {"OBJECT_KEY"}
             THEN \E c \in {Convert(g)} :
                    /\ Feed(c.f)
                    /\ IF ~c.ok THEN PathsRaise(c.raised) /\ UNCHANGED loading
                       ELSE IF event \in TopLevelEvents
                       THEN /\ PathsYield(loading.idx, path, c.val, c.f,
                                          TRUE, loading.opened)
                            /\ loading' = NoLoad
                       ELSE /\ PathsGoOn("load")
                            /\ loading' =
                                 [loading EXCEPT
                                    !.started = TRUE,
                                    !.L = IF event = "OBJECT_KEY"
                                          THEN [LoadRoot(event)
                                                  EXCEPT !.key = c.val]
                                          ELSE ListAppend(LoadRoot(event),
                                                          c.val)]
             ELSE IF event \in {"OBJECT_OPEN", "ARRAY_OPEN"}
             THEN /\ Feed(g)
                  /\ PathsGoOn("load")
                  /\ loading' = [loading EXCEPT !.started = TRUE,
                                                !.L = LoadRoot(event)]
             ELSE Feed(g) /\ PathsRaise("NotImplementedError")
                          /\ UNCHANGED loading
    /\ UNCHANGED <<paths, unyielded_path_idxs, path, decoder_vars>>

\* load(parse_gen): one event of its loop, and its return
PathsLoadEvent ==
    /\ paths_pc = "load"
    /\ loading.started
    /\ \E g \in {PathsPull} :
          IF g.p.pc = "error"
          THEN Feed(g) /\ PathsRaise(g.p.err.type) /\ UNCHANGED loading
          ELSE IF g.p.pc = "done"
          THEN /\ Feed(g)
               /\ PathsYield(loading.idx, path, loading.L.root, g, TRUE,
                             loading.opened)
               /\ loading' = NoLoad
          ELSE \E c \in {Convert(g)} :
                 LET event == Top(g.p.events).event
                     L == LoadApply(loading.L, event, c)
                 IN /\ Feed(c.f)
                    /\ IF L.raised # ""
                       THEN PathsRaise(L.raised) /\ UNCHANGED loading
                       ELSE IF LoadStops(loading.L, event)
                       THEN /\ PathsYield(loading.idx, path, L.root, c.f,
                                          TRUE, loading.opened)
                            /\ loading' = NoLoad
                       ELSE /\ PathsGoOn("load")
                            /\ loading' = [loading EXCEPT !.L = L]
    /\ UNCHANGED <<paths, unyielded_path_idxs, path, decoder_vars>>

\* the loop body for OBJECT_CLOSE and for ARRAY_CLOSE
PathsClose ==
    /\ paths_pc = "loop"
    /\ \E g \in {PathsPull} :
          /\ g.p.pc = "yield"
          /\ Top(g.p.events).event \in {"OBJECT_CLOSE", "ARRAY_CLOSE"}
          /\ Feed(g)
          /\ IF path = << >>
             THEN PathsRaise("IndexError") /\ UNCHANGED path
             ELSE PathsGoOn("loop") /\ path' = Pop(path)
    /\ UNCHANGED <<paths, unyielded_path_idxs, loading, decoder_vars>>

\* the loop body for OBJECT_KEY
PathsKey ==
    /\ paths_pc = "loop"
    /\ \E g \in {PathsPull} :
          /\ g.p.pc = "yield"
          /\ Top(g.p.events).event = "OBJECT_KEY"
          /\ \E c \in {Convert(g)} :
                /\ Feed(c.f)
                /\ IF ~c.ok THEN PathsRaise(c.raised) /\ UNCHANGED path
                   ELSE IF path = << >>
                   THEN PathsRaise("IndexError") /\ UNCHANGED path
                   ELSE /\ path' = [path EXCEPT ![Len(path)] = c.val]
                        /\ PathsGoOn(AbortCheck(unyielded_path_idxs))
    /\ UNCHANGED <<paths, unyielded_path_idxs, loading, decoder_vars>>

\* the loop body for the scalar values of arrays and of objects
PathsValue ==
    /\ paths_pc = "loop"
    /\ \E g \in {PathsPull} :
          LET event == Top(g.p.events).event
              in_array == event \in ArrayValueEvents
              why == IF in_array THEN IncrementRaises(path) ELSE ""
              path1 == IF in_array /\ why = "" THEN Increment(path) ELSE path
              hit == Matching(path1)
          IN /\ g.p.pc = "yield"
             /\ event \in ArrayValueEvents \cup ObjectValueEvents
             /\ path' = path1
             /\ IF why # "" THEN Feed(g) /\ PathsRaise(why)
                ELSE IF hit = {}
                THEN Feed(g) /\ PathsGoOn(AbortCheck(unyielded_path_idxs))
                ELSE \E c \in {Convert(g)} :
                       /\ Feed(c.f)
                       /\ IF ~c.ok THEN PathsRaise(c.raised)
                          ELSE PathsYield(Min(hit), path1, c.val, c.f,
                                          FALSE, 0)
    /\ UNCHANGED <<paths, unyielded_path_idxs, loading, decoder_vars>>

\* the loop body for an event no branch names (a separator, a value at the
\* top level)
PathsOther ==
    /\ paths_pc = "loop"
    /\ \E g \in {PathsPull} :
          /\ g.p.pc = "yield"
          /\ Top(g.p.events).event
                \notin {"OBJECT_OPEN", "ARRAY_OPEN", "OBJECT_CLOSE",
                        "ARRAY_CLOSE", "OBJECT_KEY"}
                       \cup ArrayValueEvents \cup ObjectValueEvents
          /\ Feed(g)
          /\ PathsGoOn(AbortCheck(unyielded_path_idxs))
    /\ UNCHANGED <<paths, unyielded_path_idxs, path, loading, decoder_vars>>

\* parse_gen is exhausted, or raises, in the loop of yield_paths
PathsEnd ==
    /\ paths_pc = "loop"
    /\ \E g \in {PathsPull} :
          /\ g.p.pc \in {"done", "error"}
          /\ Feed(g)
          /\ IF g.p.pc = "error" THEN PathsRaise(g.p.err.type)
             ELSE PathsGoOn("done")
    /\ UNCHANGED <<paths, unyielded_path_idxs, path, loading, decoder_vars>>

\* the consumer asks for the next pair: the statements after the yield
PathsResume ==
    /\ paths_pc = "yield"
    /\ unyielded_path_idxs' = unyielded_path_idxs \ {Last(yielded).idx}
    /\ paths_pc' = IF Last(yielded).container THEN "loop"
                   ELSE AbortCheck(unyielded_path_idxs')
    /\ UNCHANGED <<parser_vars, paths, path, yielded, loading, paths_raised,
                   decoder_vars>>

\* the keys and indexes of the requested paths
PathSegments == {PyStr(<<97>>), PyStr(<<98>>), PyInt(0), PyInt(1)}

MaxPathLen == 2
MaxPaths == 2

\* the lists of requested paths: no path twice
PathLists ==
    {ps \in BoundedSeq(BoundedSeq(PathSegments, MaxPathLen), MaxPaths) :
        \A i, j \in 1..Len(ps) : i # j => ~PathEq(ps[i], ps[j])}

\* the documents yield_paths runs on
PathDocs ==
    {
      <<49>>,                                             \* 1
      <<123, 125>>,                                       \* {}
      <<91, 93>>,                                         \* []
      <<91, 49, 44, 50, 93>>,                             \* [1,2]
      <<123, 34, 97, 34, 58, 49, 125>>,                   \* {"a":1}
      <<91, 91, 49, 93, 44, 50, 93>>,                     \* [[1],2]
      <<91, 123, 34, 97, 34, 58, 49, 125, 93>>,           \* [{"a":1}]
      <<123, 34, 97, 34, 58, 91, 49, 93, 44, 34, 98, 34, 58, 50, 125>>,
                                                          \* {"a":[1],"b":2}
      <<123, 34, 97, 34, 58, 123, 125, 44, 34, 98, 34, 58, 49, 125>>,
                                                          \* {"a":{},"b":1}
      <<123, 34, 97, 34, 58, 123, 34, 98, 34, 58, 49, 125, 125>>,
                                                          \* {"a":{"b":1}}
      <<123, 34, 97, 34, 58, 91, 91, 49, 93, 44, 50, 93, 125>>,
                                                          \* {"a":[[1],2]}
      <<91, 91, 49, 93, 44, 91, 50, 93, 93>>,             \* [[1],[2]]
      <<123, 34, 97, 34, 58, 49, 125, 32, 120>>,          \* {"a":1} x
      <<123, 34, 97, 34, 58, 34, 255, 34, 125>>,          \* {"a":"\xff"}
      <<91, 34, 120, 34, 44, 91, 93, 93>>                 \* ["x",[]]
    }

\* Parser(stream).yield_paths(paths), before the consumer asks for a pair
PathsInit ==
    /\ data = << >>
    /\ open = FALSE
    /\ rest \in PathDocs
    /\ FreshParser
    /\ NoDecoder
    /\ paths \in PathLists
    /\ unyielded_path_idxs = 1..Len(paths)
    /\ path = << >>
    /\ yielded = << >>
    /\ loading = NoLoad
    /\ paths_pc = "loop"
    /\ paths_raised = ""

PathsNext ==
    \/ PathsOpen
    \/ PathsLoadFirst
    \/ PathsLoadEvent
    \/ PathsClose
    \/ PathsKey
    \/ PathsValue
    \/ PathsOther
    \/ PathsEnd
    \/ PathsResume

SpecPaths == PathsInit /\ [][PathsNext]_vars

-----------------------------------------------------------------------------
(* Properties of yield_paths *)

\* the requested path p is a prefix of the requested path q
PathPrefix(p, q) ==
    /\ Len(p) <= Len(q)
    /\ \A k \in 1..Len(p) : SameSegment(p[k], q[k])

HasPrefixPair(ps) ==
    \E i, j \in 1..Len(ps) : i # j /\ PathPrefix(ps[i], ps[j])

HasStrictPrefixPair(ps) ==
    \E i, j \in 1..Len(ps) :
        i # j /\ PathPrefix(ps[i], ps[j]) /\ Len(ps[i]) < Len(ps[j])

\* the value the path p addresses in the value v, if it addresses one
RECURSIVE Lookup(_, _)
Lookup(v, p) ==
    IF p = << >> THEN [ok |-> TRUE, val |-> v]
    ELSE LET s == Head(p)
         IN IF v[1] = "list" /\ s[1] = "int"
            THEN IF s[2] >= 0 /\ s[2] < Len(v[2])
                 THEN Lookup(v[2][s[2] + 1], Tail(p))
                 ELSE [ok |-> FALSE, val |-> PyNone]
            ELSE IF v[1] = "dict" /\ s[1] = "str"
            THEN IF s \in DOMAIN v[2] THEN Lookup(v[2][s], Tail(p))
                 ELSE [ok |-> FALSE, val |-> PyNone]
            ELSE [ok |-> FALSE, val |-> PyNone]

\* yield_paths has returned or raised
PathsTerminated == paths_pc \in {"done", "raised"}

\* C12: on a well-formed document and requested paths none of which is a
\* prefix of another, yield_paths ends without an exception having yielded
\* exactly one pair for each requested path that addresses a value of the
\* document (the root and containers included), with the requested path and
\* the value the reference reader finds there, and nothing for the others.
C12_OnePairPerAddressedPath ==
    (PathsTerminated /\ WellFormed(Doc) /\ ~HasPrefixPair(paths))
        => LET ref == RefRead(Doc).val
               addressed == {i \in 1..Len(paths) : Lookup(ref, paths[i]).ok}
           IN /\ paths_raised = ""
              /\ Len(yielded) = Cardinality(addressed)
              /\ \A i \in addressed :
                    \E k \in 1..Len(yielded) :
                        /\ yielded[k].idx = i
                        /\ PathEq(yielded[k].path, paths[i])
                        /\ yielded[k].value = Lookup(ref, paths[i]).val

\* C13: on a well-formed document, the load() called for a requested path
\* matched at OBJECT_OPEN or ARRAY_OPEN raises nothing, whatever the
\* container holds, the value yielded is what load() returns for the text of
\* that container, and the parser then stands at the container's matching
\* close, so that the next event taken is the first after it.
C13_ContainerMatchesLoad ==
    WellFormed(Doc)
        => /\ ~(paths_pc = "raised" /\ loading.idx # 0)
           /\ \A k \in 1..Len(yielded) :
                 yielded[k].container
                    => LET close == RefValue(Doc, yielded[k].opened).pos - 1
                           sub == SubSeq(Doc, yielded[k].opened, close)
                       IN /\ Load(sub).raised = ""
                          /\ yielded[k].value = Load(sub).val
                          /\ yielded[k].char_num = close

\* every requested path has been yielded
AllYielded == paths # << >> /\ Len(yielded) = Len(paths)

\* C14: once every requested path has been yielded, by a scalar or by a
\* container, yield_paths takes no further event from the parser and the
\* parser reads no further byte.
C14_StopsWhenAllYielded ==
    [][AllYielded => /\ char_num' = char_num
                     /\ data' = data
                     /\ events' = events]_vars

\* C15: when one requested path is a strict prefix of another, no byte is
\* ever read from the stream and nothing is yielded (the call is rejected).
C15_PrefixPathsRejected ==
    HasStrictPrefixPair(paths)
        => /\ data = << >>
           /\ char_num = 0
           /\ yielded = << >>
           /\ paths_pc \in {"loop", "raised"}

-----------------------------------------------------------------------------
(* Further properties of the decoder *)

\* the scalar values of the well-formed sequences of the input, in order
ValidChars ==
    LET ok == SelectSeq(Units, LAMBDA u : u.ok)
    IN [k \in DOMAIN ok |-> ok[k].cp]

\* C21: under the IGNORE policy, when the iteration ends at the end of the
\* input, the output is the characters of the well-formed sequences of the
\* input, in order, and nothing else (inputs without the byte 0xED, decoded
\* with noncharacters allowed, so that the decoder and the standard agree on
\* what is well-formed).
C21_IgnoreDeletesInvalidBytes ==
    (/\ errors = IGNORE
     /\ raised = "StopIteration"
     /\ ~disallow_nonchars
     /\ \A i \in DOMAIN input : input[i] # 237)
      => output = ValidChars


\* the places in the input of the sequences rejected as noncharacters
RejectedNonchars ==
    {rejected[k].first : k \in {j \in DOMAIN rejected :
                                  rejected[j].why = "nonchar"}}

\* C22: on well-formed input decoded to its end (under REPLACE or IGNORE,
\* inputs without the byte 0xED), the sequences rejected as noncharacters
\* are, with disallow_nonchars set, exactly the encodings of the code points
\* whose low 16 bits are 0xFFFE or 0xFFFF and of U+FDD0 to U+FDEF, so that
\* every other code point up to 0x10FFFF is decoded; with disallow_nonchars
\* unset no sequence is rejected.
C22_NoncharsExactlyRejected ==
    (/\ errors \in {REPLACE, IGNORE}
     /\ Finished
     /\ WellFormedUtf8(input)
     /\ \A i \in DOMAIN input : input[i] # 237)
      => /\ RejectedNonchars
              = IF disallow_nonchars
                THEN {Units[k].first :
                        k \in {j \in DOMAIN Units : IsNoncharacter(Units[j].cp)}}
                ELSE { }
         /\ \A k \in DOMAIN rejected : rejected[k].why = "nonchar"


\* a call of next() under REPLACE that rejects a sequence
RejectionStep == errors = REPLACE /\ Len(rejected') = Len(rejected) + 1

\* the call of error() of that step
LastRejected == rejected'[Len(rejected')]

\* the step returns one replacement character, queues n - 1 more, and has
\* taken the bytes of the rejected sequence from the front of the stream
ReplaceRejects(n) ==
    /\ output' = Append(output, REPLACEMENT_CHAR)
    /\ num_pending_replacement' = num_pending_replacement + n - 1
    /\ Len(stream') = Len(stream) - LastRejected.read
    /\ LastRejected.first = Len(input) - Len(stream) + 1

\* a call of next() under REPLACE made while replacement characters are
\* pending returns one of them and reads nothing
PendingPaidFirst ==
    (errors = REPLACE /\ num_pending_replacement > 0)
      => /\ output' = Append(output, REPLACEMENT_CHAR)
         /\ num_pending_replacement' = num_pending_replacement - 1
         /\ UNCHANGED <<stream, byte_num, rejected>>

\* what is left of the stream is always the end of the input, so no byte is
\* read twice
NeverReadAgain ==
    /\ Len(stream') <= Len(stream)
    /\ stream' = SubSeq(input, Len(input) - Len(stream') + 1, Len(input))

\* C30, as stated: under REPLACE, the call that rejects a sequence which
\* has consumed N bytes returns one U+FFFD and adds N - 1 to the pending
\* counter; the calls that follow return the pending replacement characters
\* before any further byte is read, and no consumed byte is read again.
C30_PendingCountsBytesRead ==
    [][/\ RejectionStep => ReplaceRejects(LastRejected.read)
       /\ PendingPaidFirst
       /\ NeverReadAgain]_vars

\* C30, amended: the same with the number N that the decoder passes to
\* error(), which is the number of bytes the sequence has consumed for every
\* rejection but that of a noncharacter, where it is 1.
C30_PendingCountsBytesPassed ==
    [][/\ RejectionStep
          => /\ ReplaceRejects(LastRejected.counted)
             /\ LastRejected.counted
                  = IF LastRejected.why = "nonchar" THEN 1
                    ELSE LastRejected.read
       /\ PendingPaidFirst
       /\ NeverReadAgain]_vars

\* E2 82 41 42: the sequence is rejected at the byte 0x41, one of the two
\* pending replacement characters has been returned, and the byte 0x42 is
\* still unread
C30_Witness ==
    /\ errors = REPLACE
    /\ input = <<226, 130, 65, 66>>
    /\ Len(rejected) = 1
    /\ rejected[1].counted = 3
    /\ output = <<REPLACEMENT_CHAR, REPLACEMENT_CHAR>>
    /\ num_pending_replacement = 1
    /\ stream = <<66>>

-----------------------------------------------------------------------------
(* Further properties of the parser *)

\* the parser is at a call of next_char()
AtNextChar == pc \in {"expect", "keyword", "value_gen", "drain"}

\* the step has read the end of the stream
ReadEOF == AtNextChar /\ stuffed_char = None /\ data' = data

\* C23: char_num is the number of reads issued to the source, the bytes it
\* has returned and the one read that found its end; a call of next_char()
\* made while a byte is pushed back issues no read, leaves char_num alone
\* and takes that byte, any other call issues one read and adds 1 to
\* char_num; nothing else changes char_num or reads; and the byte pushed
\* back stays the same one until the very next call of next_char().
C23_CharNumCountsReads ==
    /\ [](/\ char_num \in {Len(data), Len(data) + 1}
          /\ char_num = Len(data) + 1 => rest = << >> /\ ~open)
    /\ [][/\ (AtNextChar /\ stuffed_char # None)
               => /\ UNCHANGED <<char_num, data, rest, open>>
                  /\ stuffed_char' \in {None, stuffed_char}
          /\ (AtNextChar /\ stuffed_char = None)
               => /\ char_num' = char_num + 1
                  /\ \/ Len(data') = Len(data) + 1
                     \/ ReadEOF /\ rest = << >> /\ ~open'
                                /\ char_num = Len(data)
                  /\ stuffed_char' # None
                       => stuffed_char' = IF ReadEOF THEN EOF ELSE Last(data')
          /\ ~AtNextChar
               => UNCHANGED <<char_num, stuffed_char, data, rest, open>>
         ]_vars

\* [1]: the byte ']' that ended the number was pushed back with char_num 3
\* and, replayed, closed the array with char_num still 3
C23_Witness ==
    /\ data = <<91, 49, 93>>
    /\ char_num = 3
    /\ stuffed_char = None
    /\ Len(events) = 3
    /\ events[2].pos = 2
    /\ events[3] = [event |-> "ARRAY_CLOSE", value |-> << >>, gen |-> FALSE,
                    pos |-> 3]


\* C24: next_nonspace_char() discards the four whitespace bytes of JSON
\* (0x20, 0x09, 0x0A, 0x0D) and no other byte: a byte read where a token is
\* expected is passed over if it is one of the four, and any other byte,
\* 0x0B and 0x0C too, reaches the matcher, which accepts it or raises
\* UnexpectedCharacter for it.
C24_OnlyJsonWhitespaceSkipped ==
    [][(pc = "expect" /\ stuffed_char = None /\ data' # data)
         => LET c == Last(data')
            IN IF c \in JsonWhitespace
               THEN /\ pc' = "expect"
                    /\ UNCHANGED <<matcher, expect_stack, events, err>>
               ELSE \/ Accepted(matcher, c) /\ err'.type # "UnexpectedCharacter"
                    \/ /\ pc' = "error"
                       /\ err' = UnexpectedCharacter(c, Len(data'),
                                                     Last(matcher))
      ]_vars


\* C25: whatever the input and whatever the consumer does with the event
\* and payload generators, the parser raises no AssertionError: stuff_char()
\* is never called while a byte is pushed back, and next_event() never
\* falls through to its final raise.
C25_NoAssertionError == err.type # "AssertionError"

\* [1]: the byte ']' was pushed back by yield_while, replayed to the test for
\* a decimal point and pushed back a second time, the slot being empty
C25_Witness ==
    /\ data = <<91, 49, 93>>
    /\ stuffed_char = ARRAY_CLOSE
    /\ gen = "done"
    /\ char_num = 3
    /\ err = NoError


\* a pop of the expect stack has found it empty
PoppedEmpty == err.type = "IndexError" /\ err.char = None

\* the matcher of the end of input lies at the bottom of the expect stack
\* and nowhere else in it
EOFAtBottom ==
    /\ expect_stack # << >>
    /\ expect_stack[1] = <<M_EOF>>
    /\ \A i \in 2..Len(expect_stack) :
         \A j \in DOMAIN expect_stack[i] : expect_stack[i][j] # M_EOF
    /\ \A j \in DOMAIN expect : expect[j] # M_EOF

\* C26: the expect stack starts as [EOF, IS_VALUE_START]; no pop of
\* next_event(), the further pops of the close matcher of the enclosing
\* container included, finds the stack empty; and the matcher of the end
\* of input stays at the bottom of the stack until next_event() pops it,
\* last of all, to expect the end of the input after the top-level value.
C26_ExpectStackDiscipline ==
    /\ (events = << >> /\ pc = "yield")
         => expect_stack = << <<M_EOF>>, <<M_IS_VALUE_START>> >>
    /\ ~PoppedEmpty
    /\ \/ EOFAtBottom
       \/ /\ expect_stack = << >>
          /\ matcher = <<M_EOF>>
          /\ expect = << >>
          /\ container_value_context_stack = << >>
          /\ pc \in {"expect", "done", "error"}

\* [[1]: the close of the inner array has popped the close matcher of the
\* outer one, which is expected again after an item separator, and the
\* matcher of the end of input is what is left on the stack
C26_Witness ==
    /\ data = <<91, 91, 49, 93>>
    /\ pc = "yield"
    /\ Last(events).event = "ARRAY_CLOSE"
    /\ expect = <<M_IS_ARRAY_ITEM_SEP, M_ARRAY_CLOSE>>
    /\ expect_stack = << <<M_EOF>> >>


\* the containers that are open, outermost first, by the events yielded
NowOpen == OpenContainers(events, Len(events))

\* the context that a container of the kind k gives to a value in it
ContextIn(k) ==
    IF k = "ARRAY" THEN ARRAY_VALUE_CONTEXT ELSE OBJECT_VALUE_CONTEXT

\* C27: container_value_context_stack holds one entry for each open
\* container but the top-level one, pushed when the container opens as an
\* element of an array or as the value of a member of an object and popped
\* when it closes; the entry says which of the two the enclosing container
\* is.  Its depth is the number of open containers less one while a
\* container is open, and zero otherwise.
C27_ContextStackTracksNesting ==
    /\ Len(container_value_context_stack)
         = IF NowOpen = << >> THEN 0 ELSE Len(NowOpen) - 1
    /\ \A i \in DOMAIN container_value_context_stack :
         container_value_context_stack[i] = ContextIn(NowOpen[i])

\* [[1],{"b":[ : an inner array has opened and closed, and an object in the
\* outer array and an array in that object are open
C27_Witness ==
    /\ data = <<91, 91, 49, 93, 44, 123, 34, 98, 34, 58, 91>>
    /\ Last(events).event = "ARRAY_OPEN"
    /\ container_value_context_stack
         = <<ARRAY_VALUE_CONTEXT, OBJECT_VALUE_CONTEXT>>


\* the byte that the call of next_char() of the step returns
ByteOfStep ==
    IF stuffed_char # None THEN stuffed_char
    ELSE IF data' # data THEN Last(data') ELSE EOF

\* the step yields the event e and no other
YieldsOnly(e) ==
    /\ pc' = "yield"
    /\ Len(events') = Len(events) + 1
    /\ Last(events').event = e
    /\ err' = NoError

\* C28: after the close of a nested container, the next byte that
\* next_nonspace_char() returns is accepted only if it is ',' or the close
\* of the enclosing container: in an array, ',' is the array item separator
\* and ']' closes the array; in an object, ',' is the object item separator
\* and '}' closes the object; whatever the container just closed was.  Any
\* other byte, the end of the input too, raises UnexpectedCharacter.
C28_EnclosingContainerDecides ==
    [][(/\ pc = "expect"
        /\ events # << >>
        /\ Last(events).event \in CloseEvents
        /\ NowOpen # << >>
        /\ ~SkipsSpace(ByteOfStep))
         => LET inArray == Last(NowOpen) = "ARRAY"
                c == ByteOfStep
            IN IF c = ITEM_SEP
               THEN YieldsOnly(IF inArray THEN "ARRAY_ITEM_SEP"
                               ELSE "OBJECT_ITEM_SEP")
               ELSE IF c = (IF inArray THEN ARRAY_CLOSE ELSE OBJECT_CLOSE)
               THEN YieldsOnly(IF inArray THEN "ARRAY_CLOSE"
                               ELSE "OBJECT_CLOSE")
               ELSE /\ pc' = "error"
                    /\ err'.type = "UnexpectedCharacter"
                    /\ err'.char = c
                    /\ events' = events
      ]_vars

\* [[1,],{"b":[], : the array that is the value of "b" has closed and the
\* ',' after it is the item separator of the object around it
C28_Witness ==
    /\ data = <<91, 91, 49, 44, 93, 44, 123, 34, 98, 34, 58, 91, 93, 44>>
    /\ pc = "yield"
    /\ Last(events).event = "OBJECT_ITEM_SEP"
    /\ events[Len(events) - 1].event = "ARRAY_CLOSE"


-----------------------------------------------------------------------------
(* Further properties of yield_paths *)

\* the places in evs of the open events of the containers that are open
\* after the first n events, outermost first
RECURSIVE OpenedAt(_, _)
OpenedAt(evs, n) ==
    IF n = 0 THEN << >>
    ELSE LET s == OpenedAt(evs, n - 1)
             e == evs[n].event
         IN IF e \in {"ARRAY_OPEN", "OBJECT_OPEN"} THEN Append(s, n)
            ELSE IF e \in CloseEvents /\ s # << >> THEN Pop(s)
            ELSE s

\* the events that stand directly in the i-th open container
DirectlyIn(i) ==
    {n \in (OpenedAt(events, Len(events))[i] + 1)..Len(events) :
       Len(OpenedAt(events, n - 1)) = i}

\* the elements started in the i-th open container, an array
ElementsStarted(i) ==
    {n \in DirectlyIn(i) :
       events[n].event \in ArrayValueEvents \cup {"ARRAY_OPEN", "OBJECT_OPEN"}}

\* the keys read in the i-th open container, an object
KeysRead(i) == {n \in DirectlyIn(i) : events[n].event = "OBJECT_KEY"}

LastOf(S) == CHOOSE n \in S : \A m \in S : m <= n

\* no container has been loaded for a match, and none is being loaded
NoContainerMatched ==
    /\ loading.idx = 0
    /\ \A k \in DOMAIN yielded : ~yielded[k].container

\* C29: while no container has been materialized by a match, the path stack
\* of yield_paths has one segment for each open container, outermost first:
\* for an array the 0-based index of the element started last in it (-1
\* before the first; scalars and the arrays and objects opened as elements
\* count), and for an object, once a key has been read in it, the key read
\* last.
C29_PathMirrorsOpenContainers ==
    (paths_pc \in {"loop", "yield", "done"} /\ NoContainerMatched)
      => LET opened == OpenedAt(events, Len(events))
         IN /\ Len(path) = Len(opened)
            /\ \A i \in DOMAIN opened :
                 IF events[opened[i]].event = "ARRAY_OPEN"
                 THEN path[i] = PyInt(Cardinality(ElementsStarted(i)) - 1)
                 ELSE KeysRead(i) # {}
                        => path[i] = convert("OBJECT_KEY",
                                events[LastOf(KeysRead(i))].value).val

\* {"a":[[1],2 : the object and the array in it are open, the key read last
\* is "a", and the element started last in the array is the second one
C29_Witness ==
    /\ paths_pc = "loop"
    /\ NoContainerMatched
    /\ data = <<123, 34, 97, 34, 58, 91, 91, 49, 93, 44, 50>>
    /\ Last(events).event = "ARRAY_VALUE_NUMBER"
    /\ path = <<PyStr(<<97>>), PyInt(1)>>


-----------------------------------------------------------------------------
(* Properties of the parser: what it accepts and how it ends *)

ItemSepEvents == {"ARRAY_ITEM_SEP", "OBJECT_ITEM_SEP"}

\* C31: after an item separator a further item separator is accepted: the
\* byte ',' tried next after the event of an item separator yields another
\* event of the same separator, so that consecutive trailing commas before
\* the close of the container parse without error.
C31_ConsecutiveSeparators ==
    [][(/\ pc = "expect"
        /\ events # << >>
        /\ Last(events).event \in ItemSepEvents
        /\ ByteOfStep = ITEM_SEP)
         => YieldsOnly(Last(events).event)
      ]_vars


\* the kind of container an event closes
ClosedKind(e) == IF e = "ARRAY_CLOSE" THEN "ARRAY" ELSE "OBJECT"

\* every close event among evs closes the innermost container open before
\* it, and one of its kind
WellNested(evs) ==
    \A n \in DOMAIN evs :
      evs[n].event \in CloseEvents
        => LET s == OpenContainers(evs, n - 1)
           IN s # << >> /\ Last(s) = ClosedKind(evs[n].event)

\* the closing bracket c does not close the innermost open container
WrongClose(c) ==
    /\ c \in {ARRAY_CLOSE, OBJECT_CLOSE}
    /\ \/ NowOpen = << >>
       \/ Last(NowOpen) # (IF c = ARRAY_CLOSE THEN "ARRAY" ELSE "OBJECT")

\* C32: in the events parse() has yielded, whether the input is complete or
\* fails, every ARRAY_CLOSE and OBJECT_CLOSE closes the innermost open
\* container and has its kind, and none comes with no container open; and
\* a closing bracket tried where it does not close the innermost open
\* container raises UnexpectedCharacter and yields no event.
C32_ProperNesting ==
    /\ []WellNested(events)
    /\ [][(pc = "expect" /\ WrongClose(ByteOfStep))
            => /\ pc' = "error"
               /\ err'.type = "UnexpectedCharacter"
               /\ err'.char = ByteOfStep
               /\ events' = events
         ]_vars

\* [1} : the bracket of the wrong kind has raised UnexpectedCharacter
C32_Witness ==
    /\ data = <<91, 49, 125>>
    /\ pc = "error"
    /\ err = UnexpectedCharacter(OBJECT_CLOSE, 3, M_ARRAY_CLOSE)
    /\ Len(events) = 2


\* the events yielded make up one complete top-level value
TopLevelComplete ==
    /\ events # << >>
    /\ NowOpen = << >>
    /\ Last(events).event \in TopLevelEvents \cup CloseEvents

\* C33: parse() accepts one top-level value.  Once its events have been
\* yielded, next_event() tries the next byte that next_nonspace_char()
\* returns on the EOF matcher: the end of the input ends the parse, and any
\* other byte raises UnexpectedCharacter for it; and a parse ends without
\* error only so, with one complete value yielded and the end of the input
\* read.
C33_OneTopLevelValue ==
    /\ []((pc = "expect" /\ TopLevelComplete) => matcher = <<M_EOF>>)
    /\ [](pc = "done"
            => /\ TopLevelComplete
               /\ matcher = <<M_EOF>>
               /\ rest = << >> /\ ~open
               /\ char_num = Len(data) + 1
               /\ err = NoError)
    /\ [][(pc = "expect" /\ TopLevelComplete /\ ~SkipsSpace(ByteOfStep))
            => IF ByteOfStep = EOF
               THEN pc' = "done" /\ events' = events /\ err' = NoError
               ELSE /\ pc' = "error"
                    /\ err' = UnexpectedCharacter(ByteOfStep, Len(data'),
                                                  M_EOF)
                    /\ events' = events
         ]_vars

\* [] [ : the array is complete and the byte '[' after it is rejected by the
\* EOF matcher
C33_Witness ==
    /\ data = <<91, 93, 32, 91>>
    /\ pc = "error"
    /\ err = UnexpectedCharacter(ARRAY_OPEN, 4, M_EOF)
    /\ Len(events) = 2


\* C34: load() on a fresh stream returns a value only if the whole input is
\* one value: for a document on which parse() finds a byte other than
\* whitespace after the complete top-level value (and raises
\* UnexpectedCharacter for it on the EOF matcher), load() raises
\* UnexpectedCharacter and returns nothing.
C34_LoadRejectsTrailingBytes ==
    (/\ pc = "error"
     /\ err.type = "UnexpectedCharacter"
     /\ err.matcher = M_EOF
     /\ TopLevelComplete)
      => Load(Doc).raised = "UnexpectedCharacter"


\* C35: when the input ends before the top-level value is complete, the
\* parse fails with UnexpectedCharacter reporting the end of the input, and
\* in no other way: a parse that has failed on the read that found the end
\* of the stream has raised UnexpectedCharacter for the end of the input at
\* the index one past the last byte.
C35_EndOfInputIsUnexpectedCharacter ==
    (pc = "error" /\ char_num = Len(data) + 1)
      => /\ err.type = "UnexpectedCharacter"
         /\ err.char = EOF
         /\ err.idx = Len(data) + 1


\* the bytes of the input at the indexes lo to hi
Slice(lo, hi) == IF lo >= 1 /\ hi <= Len(data) THEN SubSeq(data, lo, hi)
                 ELSE << >>

\* the spelling of the keyword an event stands for
KeywordOf(e) ==
    IF e \in NullEvents THEN <<110, 117, 108, 108>>
    ELSE IF e \in TrueEvents THEN <<116, 114, 117, 101>>
    ELSE <<102, 97, 108, 115, 101>>

\* C36: the bytes of a number and of the keywords null, true and false are
\* contiguous in the input: the payload of a number event, as far as it has
\* been read, is the slice of the input that begins at the position of the
\* event, and the event of a keyword is yielded at the last of the bytes
\* that spell it, which are adjacent (whitespace inside such a token is not
\* passed over).
C36_TokensContiguous ==
    \A i \in DOMAIN events :
      LET e == events[i]
      IN /\ e.event \in NumberEvents
              => e.value = Slice(e.pos, e.pos + Len(e.value) - 1)
         /\ e.event \in NullEvents \cup TrueEvents \cup FalseEvents
              => KeywordOf(e.event)
                   = Slice(e.pos - Len(KeywordOf(e.event)) + 1, e.pos)


\* C37: a consumer that keeps requesting events sees parse() terminate on
\* every finite input: it ends after the EOF match or it raises.  Every call
\* of next_char(), so every call of next_event(), takes a byte that was
\* pushed back or issues one read of the source; the call that takes the end
\* of the input yields nothing, neither an event nor a byte of a payload, and
\* either ends the parse or pushes the end of the input back and moves its
\* value generator on to its next stage.
C37_Terminates ==
    /\ <>Terminated
    /\ [][/\ AtNextChar => stuffed_char # None \/ char_num' = char_num + 1
          /\ (AtNextChar /\ ByteOfStep = EOF)
               => /\ events' = events
                  /\ \/ Terminated'
                     \/ stuffed_char' = EOF /\ gen' # gen]_vars

C37_Witness ==
    /\ pc = "done"
    /\ data = <<45, 49>>
    /\ Len(events) = 1
    /\ events[1].value = <<45, 49>>
    /\ char_num = 3


-----------------------------------------------------------------------------
(* Properties of the decoder: what it emits and what it loses *)

\* the shortest encoding of a code point (Unicode Standard, Table 3-6)
Encode(cp) ==
    IF cp < 128 THEN <<cp>>
    ELSE IF cp < 2048 THEN <<192 + (cp \div 64), 128 + (cp % 64)>>
    ELSE IF cp < 65536
    THEN <<224 + (cp \div 4096), 128 + ((cp \div 64) % 64), 128 + (cp % 64)>>
    ELSE <<240 + (cp \div 262144), 128 + ((cp \div 4096) % 64),
           128 + ((cp \div 64) % 64), 128 + (cp % 64)>>

\* the characters of the output at places other than `places`
DecodedBeside(places) ==
    LET placed == [i \in DOMAIN output |-> [at |-> i, cp |-> output[i]]]
        kept == SelectSeq(placed, LAMBDA o : o.at \notin places)
    IN [k \in DOMAIN kept |-> kept[k].cp]

\* the least place from j on where the input holds the bytes enc, 0 if none
FirstAt(enc, j) ==
    LET places == {i \in j..(Len(input) - Len(enc) + 1) :
                     SubSeq(input, i, i + Len(enc) - 1) = enc}
    IN IF places = {} THEN 0
       ELSE CHOOSE i \in places : \A h \in places : i <= h

\* the characters chars[k..] are encoded in the input from place j on, in
\* their shortest form, one after the other
RECURSIVE EncodedFrom(_, _, _)
EncodedFrom(chars, k, j) ==
    \/ k > Len(chars)
    \/ LET i == FirstAt(Encode(chars[k]), j)
       IN i > 0 /\ EncodedFrom(chars, k + 1, i + Len(Encode(chars[k])))

\* C38: under every error policy, each character emitted is either a
\* replacement character that a call of error() under REPLACE has produced
\* or a code point of at most 0x10FFFF outside U+D800 to U+DFFF that the
\* input holds in its shortest encoding (the decoded characters lie in the
\* input in the order of the output); num_pending_replacement is never
\* negative, and it stays 0 under STRICT and under IGNORE.
C38_OnlyScalarValuesEmitted ==
    /\ num_pending_replacement >= 0
    /\ errors \in {STRICT, IGNORE} => num_pending_replacement = 0
    /\ \E replaced \in {IF errors = REPLACE THEN ReplacementPlaces ELSE {}} :
         /\ \A i \in DOMAIN output :
              \/ i \in replaced /\ output[i] = REPLACEMENT_CHAR
              \/ /\ 0 <= output[i] /\ output[i] <= MAX_CODEPOINT
                 /\ output[i] < 55296 \/ output[i] > 57343
         /\ EncodedFrom(DecodedBeside(replaced), 1, 1)

\* a lone continuation byte has been replaced and the two bytes of U+0080
\* after it decoded
C38_Witness ==
    /\ errors = REPLACE
    /\ input = <<128, 194, 128>>
    /\ output = <<REPLACEMENT_CHAR, 128>>
    /\ num_pending_replacement = 0


\* the elements of s below 0x80, in order
AsciiOf(s) == SelectSeq(s, LAMBDA b : b < 128)

\* C39: under REPLACE and under IGNORE, when the iteration ends at the end
\* of the input, every byte of the input below 0x80 is in the output as its
\* own character, in the order of the input, also a byte that interrupts an
\* incomplete sequence: the characters of the output below 0x80 are the
\* bytes of the input below 0x80.
C39_AsciiNeverLost ==
    (errors \in {REPLACE, IGNORE} /\ raised = "StopIteration")
      => AsciiOf(output) = AsciiOf(input)


-----------------------------------------------------------------------------
(* Properties of yield_paths: the paths it hands out *)

\* C40: a path yielded by yield_paths is left unchanged by what the parser
\* does afterwards: at every later moment each pair the consumer has kept
\* holds a path equal to the requested path it matched.
C40_YieldedPathUnchanged ==
    \A k \in DOMAIN yielded : PathEq(KeptPath(k), paths[yielded[k].idx])

=============================================================================
